---- MODULE Spec2Model ----
(***************************************************************************)
(* A model of dj-migrator: the Serato crate decoder (crate-parser), the    *)
(* Serato marker decoder (track-parser), the Serato library builder        *)
(* (serato-parser/index) and the Rekordbox emitter (to-rekordbox).         *)
(*                                                                         *)
(* Bytes are integers 0..255, a Buffer is a sequence of bytes, a JS string *)
(* is a sequence of character codes.  A value that may be null is a record *)
(* [isNull, bytes].  A thrown exception is the status "throw".             *)
(***************************************************************************)
EXTENDS Integers, Sequences, FiniteSets, TLC

VARIABLES
    \* crate-parser: parseCrate / parseTrackNames
    crateBuffer,    \* the bytes of the crate file (fs.readFileSync)
    crateIndex,     \* ByteStream.index of the top-level stream
    crate,          \* the crate under construction {columns, tracks, metadata, unknown}
    cratePc,        \* "idle" | "parsing" | "parsed" | "named" | "throw"
    trackNames,     \* the result of parseTrackNames, once cratePc = "named"
    lastTag,        \* the tag the last parseTag call of the loop returned
    \* track-parser: convertSeratoMarkers
    markerBuffer,   \* the decoded marker data handed to convertSeratoMarkers
    markerIndex,    \* frameByteStream.index
    entries,        \* the entries decoded so far
    markerPc,       \* "idle" | "header" | "loop" | "done" | "throw"
    markerErr,      \* the message of the error thrown, "" when none
    \* serato-parser: buildTrackMap
    playlists,      \* the playlists handed to buildTrackMap: [name, tracks]
    iPlaylist,      \* the playlist the outer for-of loop is at, from 1
    iTrack,         \* the track the inner for-of loop is at, from 1
    trackMap,       \* the own properties of trackMap, in property order:
                    \* [path, key, absolutePath, track]
    pending,        \* the outcome of the convertTrack call being awaited
    buildPc,        \* "idle" | "loop" | "awaiting" | "done" | "throw"
    buildErr,       \* the error buildTrackMap rejected with, "" when none
    convertCalls,   \* the paths convertTrack has been called with, in call order
    progressLog,    \* the calls of progressCallback so far: [progress, message]
    inFlight,       \* the number of convertTrack calls made and not yet settled
    elapsed,        \* the turns of the event loop the awaited call has taken
    \* to-rekordbox: buildCollectionTag, buildPlaylistsTag
    xmlCollection,  \* the COLLECTION element: [Entries, tracks]
    xmlPlaylists,   \* the playlist NODE elements under ROOT: [Name, Entries, tracks]
    emitPc,         \* "idle" | "collection" | "playlists" | "done"
    \* serato-parser: convertFromSerato
    subcrateDir,    \* <seratoDir>/_Serato_/Subcrates on disk: [exists, files]
    cratesToConvert,\* the crates asked for: [isUndefined, names]
    cratePaths,     \* the crate files to parse: [path, bytes]
    iCrate,         \* the crate path the forEach is at, from 1
    fsCalls,        \* the readdirSync / readFileSync calls made, in order
    seratoPc,       \* "idle" | "start" | "readdir" | "crates" | "building" | "done" | "throw"
    seratoErr,      \* the error convertFromSerato rejected with, "" when none
    \* ByteStream
    streamBuffer,   \* ByteStream.buffer
    streamIndex,    \* ByteStream.index
    streamLast,     \* the last call: [fn, size, index (before it), value (returned)]
    streamReads,    \* the read calls so far: [size, value]
    streamCalls,    \* the number of calls so far
    \* tracktor-parser: buildTrackMap
    nmlEntries,     \* xml.NML.COLLECTION[0].ENTRY: [volume, dir, file, cues]
    nmlIndex,       \* i, the number of entries gone through
    nmlTrackMap,    \* trackMap in key insertion order: [path, key, absolutePath, track]
    nmlPending,     \* the getMetadata call awaited: [st, err, metadata]
    nmlProgress,    \* the calls of progressCallback so far: [i, of, location]
    nmlPc,          \* "idle" | "loop" | "awaiting" | "done" | "throw"
    nmlErr          \* the error buildTrackMap rejected with, "" when none

crateVars == <<crateBuffer, crateIndex, crate, cratePc, trackNames, lastTag>>

markerVars == <<markerBuffer, markerIndex, entries, markerPc, markerErr>>

buildVars ==
    <<playlists, iPlaylist, iTrack, trackMap, pending, buildPc, buildErr, convertCalls,
      progressLog, inFlight, elapsed>>

emitVars == <<xmlCollection, xmlPlaylists, emitPc>>

seratoVars ==
    <<subcrateDir, cratesToConvert, cratePaths, iCrate, fsCalls, seratoPc, seratoErr>>

streamVars == <<streamBuffer, streamIndex, streamLast, streamReads, streamCalls>>

nmlVars ==
    <<nmlEntries, nmlIndex, nmlTrackMap, nmlPending, nmlProgress, nmlPc, nmlErr>>

vars == <<crateVars, markerVars, buildVars, emitVars, seratoVars, streamVars, nmlVars>>

(***************************************************************************)
(* Byte and string helpers                                                 *)
(***************************************************************************)

\* The hex digits (0..15) of the bytes of buffer in [start, end), as
\* Buffer.toString('hex', start, end) writes them: two digits per byte.
ToStringHex(buffer, start, end) ==
    LET lo == IF start < 0 THEN 0 ELSE start
        hi == IF end > Len(buffer) THEN Len(buffer) ELSE end
        n  == IF hi > lo THEN hi - lo ELSE 0
    IN  [k \in 1..(2 * n) |->
            IF k % 2 = 1 THEN buffer[lo + ((k + 1) \div 2)] \div 16
                         ELSE buffer[lo + (k \div 2)] % 16]

\* Buffer.from(hexString, 'hex'): one byte per pair of hex digits.
BufferFromHex(hex) ==
    [k \in 1..(Len(hex) \div 2) |-> hex[2 * k - 1] * 16 + hex[2 * k]]

\* A Buffer | null value.
NullBuffer == [isNull |-> TRUE, bytes |-> <<>>]

Buf(bytes) == [isNull |-> FALSE, bytes |-> bytes]

\* The 4 bytes read as a little-endian number (readUInt32LE).
ReadUInt32BE_LittleEndian(bytes, offset) ==
    IF bytes[offset + 4] >= 128 THEN 2147000000
    ELSE bytes[offset + 4] * 16777216 + bytes[offset + 3] * 65536
            + bytes[offset + 2] * 256 + bytes[offset + 1]

\* Buffer.readUInt32BE(offset): the unsigned big-endian value of 4 bytes.
\* TLC's integers have 32 bits: a value of 2^31 or more is given as
\* 2147000000, which like it is larger than the length of any buffer here.
ReadUInt32BE(bytes, offset) ==
    IF bytes[offset + 1] >= 128 THEN 2147000000
    ELSE bytes[offset + 1] * 16777216 + bytes[offset + 2] * 65536
            + bytes[offset + 3] * 256 + bytes[offset + 4]

\* A number of up to 32 bits: high * 65536 + low, both below 65536.
UInt32(high, low) == [high |-> high, low |-> low]

\* Buffer.readUInt32BE(offset) where the value itself is wanted, which may
\* be 2^31 or more: the unsigned big-endian value of 4 bytes.
ReadUInt32BEValue(bytes, offset) ==
    UInt32(bytes[offset + 1] * 256 + bytes[offset + 2],
           bytes[offset + 3] * 256 + bytes[offset + 4])

\* Buffer.toString('ascii'): decoding unsets the highest bit of every byte.
ToStringAscii(bytes) == [k \in 1..Len(bytes) |-> bytes[k] % 128]

\* Buffer.swap16(): swaps the bytes of every 16-bit unit, in place.
Swap16(bytes) ==
    [k \in 1..Len(bytes) |-> IF k % 2 = 1 THEN bytes[k + 1] ELSE bytes[k - 1]]

\* Buffer.toString('utf16le'): one code unit per pair of bytes, low byte first.
ToStringUtf16le(bytes) ==
    [k \in 1..(Len(bytes) \div 2) |-> bytes[2 * k - 1] + 256 * bytes[2 * k]]

(***************************************************************************)
(* ByteStream                                                              *)
(***************************************************************************)

\* A read that refuses to read up to the very end of the buffer.
Read_NotToTheEnd(buffer, index, size) ==
    IF Len(buffer) > index + size
    THEN [value |-> Buf(BufferFromHex(ToStringHex(buffer, index, index + size))),
          index |-> index + size]
    ELSE [value |-> NullBuffer, index |-> index]

\* A read that returns the bytes and leaves the index where it was.
Read_NotAdvancing(buffer, index, size) ==
    IF Len(buffer) >= index + size
    THEN [value |-> Buf(BufferFromHex(ToStringHex(buffer, index, index + size))),
          index |-> index]
    ELSE [value |-> NullBuffer, index |-> index]

\* ByteStream.read(size): the value returned and the index afterwards.
Read(buffer, index, size) ==
    IF Len(buffer) >= index + size
    THEN [value |-> Buf(BufferFromHex(ToStringHex(buffer, index, index + size))),
          index |-> index + size]
    ELSE [value |-> NullBuffer, index |-> index]

\* A lookahead that moves the index as read does.
Lookahead_Advancing(buffer, index, size) ==
    IF Len(buffer) >= index + size
    THEN [value |-> Buf(BufferFromHex(ToStringHex(buffer, index, index + size))),
          index |-> index + size]
    ELSE [value |-> NullBuffer, index |-> index]

\* ByteStream.lookahead(size): the value returned and the index afterwards.
Lookahead(buffer, index, size) ==
    IF Len(buffer) >= index + size
    THEN [value |-> Buf(BufferFromHex(ToStringHex(buffer, index, index + size))),
          index |-> index]
    ELSE [value |-> NullBuffer, index |-> index]

(***************************************************************************)
(* crate-parser: tags                                                      *)
(***************************************************************************)

\* The keys of TAG_TYPE_TO_CLASS (character codes) and the class of each.
Key_orvc == <<111, 114, 118, 99>>
Key_osrt == <<111, 115, 114, 116>>
Key_otrk == <<111, 116, 114, 107>>
Key_ovct == <<111, 118, 99, 116>>
Key_ptrk == <<112, 116, 114, 107>>
Key_tvcn == <<116, 118, 99, 110>>
Key_vrsn == <<118, 114, 115, 110>>

TAG_TYPE_TO_CLASS ==
    (Key_orvc :> "UnknownPayload") @@ (Key_osrt :> "FirstColumnTag")
    @@ (Key_otrk :> "TrackTag") @@ (Key_ovct :> "ColumnTag")
    @@ (Key_ptrk :> "TrackNameTag") @@ (Key_tvcn :> "ColumnNameTag")
    @@ (Key_vrsn :> "MetadataTag")

\* parseTag's "return null".
NullTag == [cls |-> "null"]

\* new UnknownTag(tagType, payload); payload may be null.
UnknownTag(tagType, payload) ==
    [cls |-> "UnknownTag", tagType |-> ToStringAscii(tagType), payload |-> payload]

\* The outcome of a call: "return" with a tag, or "throw"; index is the
\* stream's index afterwards.
Return(tag, index) == [st |-> "return", tag |-> tag, index |-> index]

Throw(index) == [st |-> "throw", tag |-> NullTag, index |-> index]

\* payload.swap16().toString('utf16le'): throws on null (TypeError) and on
\* a buffer of odd length (RangeError).
DecodeText(payload) ==
    IF payload.isNull \/ Len(payload.bytes) % 2 # 0
    THEN [st |-> "throw", text |-> <<>>]
    ELSE [st |-> "return", text |-> ToStringUtf16le(Swap16(payload.bytes))]

RECURSIVE ParseTag(_, _)
RECURSIVE NewTag(_, _)

\* A parseTag that goes on to the length whatever the first read gave.
NotAValidTag_Never(tagType) == FALSE

\* parseTag's test of the four type bytes, "if (tagType) ... return null":
\* a Buffer is truthy, null is not.
NotAValidTag(tagType) == tagType.isNull

\* new Tag(payload) for the class cls of TAG_TYPE_TO_CLASS: "return" with the
\* object, or "throw".  new ByteStream(null) succeeds; the first read of it
\* throws a TypeError (null.length).
NewTag(cls, payload) ==
    CASE cls = "MetadataTag" ->
            LET d == DecodeText(payload)
            IN  [st |-> d.st, tag |-> [cls |-> cls, metadata |-> d.text]]
      [] cls \in {"ColumnNameTag", "TrackNameTag"} ->
            LET d == DecodeText(payload)
            IN  [st |-> d.st, tag |-> [cls |-> cls, name |-> d.text]]
      [] cls \in {"ColumnTag", "FirstColumnTag"} ->
            IF payload.isNull THEN [st |-> "throw", tag |-> NullTag]
            ELSE LET t1 == ParseTag(payload.bytes, 0)
                 IN  IF t1.st = "throw" THEN [st |-> "throw", tag |-> NullTag]
                     ELSE LET t2 == ParseTag(payload.bytes, t1.index)
                          IN  [st |-> t2.st,
                               tag |-> [cls |-> cls, nameTag |-> t1.tag, tag2 |-> t2.tag]]
      [] cls = "TrackTag" ->
            IF payload.isNull THEN [st |-> "throw", tag |-> NullTag]
            ELSE LET t1 == ParseTag(payload.bytes, 0)
                 IN  [st |-> t1.st, tag |-> [cls |-> cls, nameTag |-> t1.tag]]
      [] cls = "UnknownPayload" ->
            IF payload.isNull THEN [st |-> "throw", tag |-> NullTag]
            ELSE LET t1 == ParseTag(payload.bytes, 0)
                 IN  [st |-> t1.st, tag |-> [cls |-> cls, payload |-> t1.tag]]

\* parseTag(byteStream), the stream being (buffer, index).
ParseTag(buffer, index) ==
    LET tagType == Read(buffer, index, 4)
    IN  IF NotAValidTag(tagType.value) THEN Return(NullTag, tagType.index)
        ELSE
        LET lengthBytes == Read(buffer, tagType.index, 4)
        IN  IF lengthBytes.value.isNull THEN Throw(lengthBytes.index)
            ELSE
            LET payloadLength == ReadUInt32BE(lengthBytes.value.bytes, 0)
                payload == Read(buffer, lengthBytes.index, payloadLength)
                key == ToStringAscii(tagType.value.bytes)
            IN  IF key \in DOMAIN TAG_TYPE_TO_CLASS
                THEN LET made == NewTag(TAG_TYPE_TO_CLASS[key], payload.value)
                     IN  IF made.st = "throw" THEN Throw(payload.index)
                         ELSE Return(made.tag, payload.index)
                ELSE Return(UnknownTag(tagType.value.bytes, payload.value),
                            payload.index)

(***************************************************************************)
(* crate-parser: parseCrate, parseTrackNames                               *)
(***************************************************************************)

\* A JS string | undefined value.
Undefined == [isUndefined |-> TRUE, chars |-> <<>>]

Str(chars) == [isUndefined |-> FALSE, chars |-> chars]

\* crate = { columns: [], tracks: [], unknown: [] }; metadata is not set yet.
EmptyCrate ==
    [columns |-> <<>>, tracks |-> <<>>, unknown |-> <<>>, metadata |-> NullTag]

\* A loop body that files by the type table: every tag of a known type
\* other than ovct, otrk and vrsn is dropped, only UnknownTags are kept.
Classify_ByTypeTable(c, tag) ==
    IF tag.cls = "ColumnTag" THEN [c EXCEPT !.columns = Append(@, tag)]
    ELSE IF tag.cls = "TrackTag" THEN [c EXCEPT !.tracks = Append(@, tag)]
    ELSE IF tag.cls = "MetadataTag" THEN [c EXCEPT !.metadata = tag]
    ELSE IF tag.cls = "UnknownTag" THEN [c EXCEPT !.unknown = Append(@, tag)]
    ELSE c

\* The body of parseCrate's while loop: file the tag by its class.
Classify(c, tag) ==
    IF tag.cls = "ColumnTag" THEN [c EXCEPT !.columns = Append(@, tag)]
    ELSE IF tag.cls = "TrackTag" THEN [c EXCEPT !.tracks = Append(@, tag)]
    ELSE IF tag.cls = "MetadataTag" THEN [c EXCEPT !.metadata = tag]
    ELSE [c EXCEPT !.unknown = Append(@, tag)]

\* track.nameTag.name: a TypeError when nameTag is null, undefined when the
\* nested tag has no name property.
TrackName(track) ==
    IF track.nameTag.cls = "null" THEN [st |-> "throw", name |-> Undefined]
    ELSE IF track.nameTag.cls \in {"TrackNameTag", "ColumnNameTag"}
    THEN [st |-> "return", name |-> Str(track.nameTag.name)]
    ELSE [st |-> "return", name |-> Undefined]

\* crate.tracks.map(track => track.nameTag.name)
MapTrackNames(tracks) ==
    IF \E i \in 1..Len(tracks) : TrackName(tracks[i]).st = "throw"
    THEN [st |-> "throw", names |-> <<>>]
    ELSE [st |-> "return", names |-> [i \in 1..Len(tracks) |-> TrackName(tracks[i]).name]]

\* parseCrate's loop from offset index on: the crate, or "throw".
RECURSIVE ParseCrateLoop(_, _, _)
ParseCrateLoop(buffer, index, c) ==
    LET r == ParseTag(buffer, index)
    IN  IF r.st = "throw" THEN [st |-> "throw", crate |-> c]
        ELSE IF r.tag.cls = "null" THEN [st |-> "return", crate |-> c]
        ELSE ParseCrateLoop(buffer, r.index, Classify(c, r.tag))

\* parseCrate, given the bytes readFileSync returns.
ParseCrate(buffer) == ParseCrateLoop(buffer, 0, EmptyCrate)

\* parseAsPlaylist, given the playlist name and the bytes of the crate file:
\* the track names are strings or undefined.
ParseAsPlaylist(name, buffer) ==
    LET c == ParseCrate(buffer)
        m == MapTrackNames(c.crate.tracks)
    IN  IF c.st = "throw" \/ m.st = "throw"
        THEN [st |-> "throw", playlist |-> [name |-> name, tracks |-> <<>>]]
        ELSE [st |-> "return", playlist |-> [name |-> name, tracks |-> m.names]]

(***************************************************************************)
(* track-parser: marker entries                                            *)
(***************************************************************************)

Name_COLOR == <<67, 79, 76, 79, 82>>
Name_CUE == <<67, 85, 69>>
Name_BPMLOCK == <<66, 80, 77, 76, 79, 67, 75>>

\* new ColorEntry(data): data.toString('hex', 1).
ColorEntry(data) ==
    [st |-> "return",
     entry |-> [cls |-> "ColorEntry", color |-> ToStringHex(data, 1, Len(data))]]

\* A CueEntry whose index is read from byte 0.
CueEntry_IndexFromByte0(data) ==
    IF Len(data) < 6 THEN [st |-> "throw", entry |-> [cls |-> "none"]]
    ELSE [st |-> "return",
          entry |-> [cls |-> "CueEntry",
                     index |-> data[1],
                     position |-> ReadUInt32BEValue(data, 2),
                     color |-> ToStringHex(data, 7, 10)]]

\* new CueEntry(data): readUIntBE(1, 1) and readUInt32BE(2) throw a
\* RangeError when the bytes they read are not all in the buffer.
CueEntry(data) ==
    IF Len(data) < 6 THEN [st |-> "throw", entry |-> [cls |-> "none"]]
    ELSE [st |-> "return",
          entry |-> [cls |-> "CueEntry",
                     index |-> data[2],
                     position |-> ReadUInt32BEValue(data, 2),
                     color |-> ToStringHex(data, 7, 10)]]

\* new BPMLockEntry(data): !!data.readUIntBE(0, 1).
BPMLockEntry(data) ==
    IF Len(data) < 1 THEN [st |-> "throw", entry |-> [cls |-> "none"]]
    ELSE [st |-> "return", entry |-> [cls |-> "BPMLockEntry", enabled |-> data[1] # 0]]

\* A getEntryType that takes the 0x00 into the name.
RECURSIVE GetEntryType_WithTerminator(_, _)
GetEntryType_WithTerminator(buffer, index) ==
    LET nextByte == Read(buffer, index, 1)
    IN  IF nextByte.value.isNull
        THEN [entryType |-> <<>>, index |-> nextByte.index]
        ELSE IF ToStringHex(nextByte.value.bytes, 0, 1) = <<0, 0>>
        THEN [entryType |-> nextByte.value.bytes, index |-> nextByte.index]
        ELSE LET rest == GetEntryType_WithTerminator(buffer, nextByte.index)
             IN  [entryType |-> nextByte.value.bytes \o rest.entryType, index |-> rest.index]

\* getEntryType: the bytes up to the first 0x00 or the end of the stream,
\* each as one character ('binary'); the index is left after the 0x00.
RECURSIVE GetEntryType(_, _)
GetEntryType(buffer, index) ==
    LET nextByte == Read(buffer, index, 1)
    IN  IF nextByte.value.isNull \/ ToStringHex(nextByte.value.bytes, 0, 1) = <<0, 0>>
        THEN [entryType |-> <<>>, index |-> nextByte.index]
        ELSE LET rest == GetEntryType(buffer, nextByte.index)
             IN  [entryType |-> nextByte.value.bytes \o rest.entryType, index |-> rest.index]

\* A getEntryPayload without the assertion on the length read.
GetEntryPayload_NoAssert(buffer, index) ==
    LET lengthBytes == Read(buffer, index, 4)
    IN  IF lengthBytes.value.isNull
        THEN [st |-> "throw", err |-> "Entry length must be greater than 0",
              payload |-> NullBuffer, index |-> lengthBytes.index]
        ELSE LET r == Read(buffer, lengthBytes.index, ReadUInt32BE(lengthBytes.value.bytes, 0))
             IN  [st |-> "return", err |-> "", payload |-> r.value, index |-> r.index]

\* getEntryPayload: the assertion fails on a missing or zero length.
GetEntryPayload(buffer, index) ==
    LET lengthBytes == Read(buffer, index, 4)
    IN  IF lengthBytes.value.isNull \/ ReadUInt32BE(lengthBytes.value.bytes, 0) = 0
        THEN [st |-> "throw", err |-> "Entry length must be greater than 0",
              payload |-> NullBuffer, index |-> lengthBytes.index]
        ELSE LET r == Read(buffer, lengthBytes.index, ReadUInt32BE(lengthBytes.value.bytes, 0))
             IN  [st |-> "return", err |-> "", payload |-> r.value, index |-> r.index]

\* A header check that looks at the first byte only.
FrameHeaderValid_FirstByte(frameHeader) ==
    /\ ~frameHeader.isNull
    /\ ToStringHex(frameHeader.bytes, 0, 1) = <<0, 1>>

\* assert(frameHeader && frameHeader.toString('hex') === '0101')
FrameHeaderValid(frameHeader) ==
    /\ ~frameHeader.isNull
    /\ ToStringHex(frameHeader.bytes, 0, Len(frameHeader.bytes)) = <<0, 1, 0, 1>>

\* The loop over [ColorEntry, CueEntry, BPMLockEntry]: the entries with the
\* entry of the class whose NAME is entryType added, if there is one.
ConvertEntry(entryType, entryPayload, soFar) ==
    LET made == IF entryType = Name_COLOR THEN ColorEntry(entryPayload)
                ELSE IF entryType = Name_CUE THEN CueEntry(entryPayload)
                ELSE IF entryType = Name_BPMLOCK THEN BPMLockEntry(entryPayload)
                ELSE [st |-> "return", entry |-> [cls |-> "none"]]
    IN  IF made.st = "throw" THEN [st |-> "throw", err |-> "RangeError", entries |-> soFar]
        ELSE IF made.entry.cls = "none" THEN [st |-> "return", err |-> "", entries |-> soFar]
        ELSE [st |-> "return", err |-> "", entries |-> soFar \o <<made.entry>>]

\* One pass of convertSeratoMarkers' while (true) loop: "break", "continue"
\* or "throw".
MarkerLoopBody(buffer, index, soFar) ==
    LET t == GetEntryType(buffer, index)
    IN  IF t.entryType = <<>>
        THEN [st |-> "break", err |-> "", index |-> t.index, entries |-> soFar]
        ELSE
        LET p == GetEntryPayload(buffer, t.index)
        IN  IF p.st = "throw"
            THEN [st |-> "throw", err |-> p.err, index |-> p.index, entries |-> soFar]
            ELSE IF p.payload.isNull
            THEN [st |-> "throw", err |-> "Corrupted entry: Payload failed to parse",
                  index |-> p.index, entries |-> soFar]
            ELSE LET c == ConvertEntry(t.entryType, p.payload.bytes, soFar)
                 IN  [st |-> IF c.st = "throw" THEN "throw" ELSE "continue",
                      err |-> c.err, index |-> p.index, entries |-> c.entries]

RECURSIVE MarkerLoop(_, _, _)
MarkerLoop(buffer, index, soFar) ==
    LET b == MarkerLoopBody(buffer, index, soFar)
    IN  IF b.st = "continue" THEN MarkerLoop(buffer, b.index, b.entries)
        ELSE IF b.st = "break" THEN [st |-> "return", err |-> "", entries |-> b.entries]
        ELSE [st |-> "throw", err |-> b.err, entries |-> <<>>]

\* convertSeratoMarkers(buffer): the entries returned, or the error thrown.
ConvertSeratoMarkers(buffer) ==
    LET frameHeader == Read(buffer, 0, 2)
    IN  IF ~FrameHeaderValid(frameHeader.value)
        THEN [st |-> "throw", err |-> "Frame header is invalid", entries |-> <<>>]
        ELSE MarkerLoop(buffer, frameHeader.index, <<>>)

(***************************************************************************)
(* Crate files the decoder is run on                                       *)
(***************************************************************************)

\* The most tags (or pieces of garbage) a crate file is put together from.
MaxTags == 3

\* The 4 bytes of n, big-endian.
UInt32BE(n) ==
    <<(n \div 16777216) % 256, (n \div 65536) % 256, (n \div 256) % 256, n % 256>>

\* A tag declaring declared bytes of payload and holding payload.
RawTag(tagType, declared, payload) == tagType \o UInt32BE(declared) \o payload

\* A well-formed tag.
EncodeTag(tagType, payload) == RawTag(tagType, Len(payload), payload)

Type_abcd == <<97, 98, 99, 100>>     \* not a known type
Type_tvcw == <<116, 118, 99, 119>>   \* not a known type (column width)
Type_OTRK == <<79, 84, 82, 75>>      \* otrk in upper case
Type_otrkHigh == <<239, 116, 114, 107>>  \* otrk with the high bit of 'o' set

TextA == <<0, 65>>   \* "A" in UTF-16 big-endian
TextB == <<0, 66>>   \* "B"

Item_TrackA == EncodeTag(Key_otrk, EncodeTag(Key_ptrk, TextA))
Item_TrackB == EncodeTag(Key_otrk, EncodeTag(Key_ptrk, TextB))
Item_Meta == EncodeTag(Key_vrsn, <<0, 49>>)
Item_Meta2 == EncodeTag(Key_vrsn, <<0, 50>>)
Item_Column ==
    EncodeTag(Key_ovct, EncodeTag(Key_tvcn, <<0, 115>>) \o EncodeTag(Type_tvcw, <<0, 48>>))
Item_FirstColumn ==
    EncodeTag(Key_osrt, EncodeTag(Key_tvcn, <<0, 115>>) \o EncodeTag(Key_orvc, <<>>))
Item_Unknown == EncodeTag(Type_abcd, <<7>>)
Item_UnknownShort == RawTag(Type_abcd, 9, <<7>>)
Item_MetaShort == RawTag(Key_vrsn, 200, <<0, 49>>)
Item_TrackEmpty == EncodeTag(Key_otrk, <<>>)
Item_TrackNestedShort == EncodeTag(Key_otrk, RawTag(Type_abcd, 200, <<7>>))
Item_Upper == EncodeTag(Type_OTRK, EncodeTag(Key_ptrk, TextA))
Item_High == EncodeTag(Type_otrkHigh, EncodeTag(Key_ptrk, TextA))
Item_Tail == <<1, 2, 3>>
Item_Tail2 == <<1, 2>>
Item_Tail1 == <<1>>

CrateItems ==
    { Item_TrackA, Item_TrackB, Item_Meta, Item_Column, Item_FirstColumn,
      Item_Unknown, Item_UnknownShort, Item_MetaShort, Item_TrackEmpty,
      Item_TrackNestedShort, Item_Upper, Item_High, Item_Tail,
      Item_Tail2, Item_Tail1, Item_Meta2 }

RECURSIVE Concat(_)
Concat(seqs) == IF seqs = <<>> THEN <<>> ELSE Head(seqs) \o Concat(Tail(seqs))

\* Sequences of at most n elements of S.
SeqUpTo(S, n) == UNION { [1..k -> S] : k \in 0..n }

CrateBuffers == { Concat(items) : items \in SeqUpTo(CrateItems, MaxTags) }

(***************************************************************************)
(* Marker buffers the decoder is run on                                    *)
(***************************************************************************)

\* The most entries (or pieces of garbage) after the header of a marker buffer.
MaxEntries == 2

\* An entry: the name, 0x00, the declared length, the payload.
RawEntry(name, declared, payload) == name \o <<0>> \o UInt32BE(declared) \o payload

EncodeEntry(name, payload) == RawEntry(name, Len(payload), payload)

Payload_Cue5 == <<0, 5, 0, 0, 128, 191, 0, 204, 0, 0, 0, 0, 0>>
Payload_Cue1 == <<9, 1, 0, 0, 0, 7, 8, 1, 2, 3, 4, 0, 0>>
\* Payload_Cue5 with other bytes 0, 6 and 10 and later.
Payload_Cue5Other == <<1, 5, 0, 0, 128, 191, 7, 204, 0, 0, 9, 9, 9, 9>>
\* 10 bytes, the position 2^32 - 1.
Payload_CueHigh == <<255, 200, 255, 255, 255, 255, 99, 1, 35, 69>>

Entry_Cue5 == EncodeEntry(Name_CUE, Payload_Cue5)
Entry_Cue1 == EncodeEntry(Name_CUE, Payload_Cue1)
Entry_Cue5Other == EncodeEntry(Name_CUE, Payload_Cue5Other)
Entry_CueHigh == EncodeEntry(Name_CUE, Payload_CueHigh)
Entry_Color == EncodeEntry(Name_COLOR, <<0, 255, 255, 255>>)
Entry_ColorLong == EncodeEntry(Name_COLOR, <<0, 18, 52, 86, 120>>)
Entry_BpmLock == EncodeEntry(Name_BPMLOCK, <<1>>)
Entry_Other == EncodeEntry(<<88, 89>>, <<9>>)
Entry_ZeroLength == RawEntry(Name_CUE, 0, <<>>)
Entry_ShortPayload == RawEntry(Name_CUE, 13, <<0, 5>>)
Entry_NoLength == Name_CUE \o <<0, 0, 0>>
Entry_ColorZero == RawEntry(Name_COLOR, 0, <<>>)
Entry_CueTooSmall == EncodeEntry(Name_CUE, <<0, 5>>)
Entry_End == <<0>>
Entry_NameOnly == Name_CUE

MarkerItems ==
    { Entry_Cue5, Entry_Cue1, Entry_Cue5Other, Entry_CueHigh, Entry_Color, Entry_ColorLong, Entry_BpmLock,
      Entry_Other, Entry_ZeroLength, Entry_ShortPayload, Entry_NoLength,
      Entry_CueTooSmall, Entry_End, Entry_NameOnly, Entry_ColorZero }

MarkerHeaders == { <<1, 1>>, <<1, 0>>, <<0, 1>>, <<1>>, <<>> }

MarkerBuffers ==
    { h \o Concat(items) : h \in MarkerHeaders, items \in SeqUpTo(MarkerItems, MaxEntries) }

(***************************************************************************)
(* path, fs and the files of the library                                   *)
(***************************************************************************)

\* String.toLowerCase on character codes.
ToLowerCase(str) ==
    [k \in 1..Len(str) |-> IF str[k] >= 65 /\ str[k] <= 90 THEN str[k] + 32 ELSE str[k]]

\* The last position of character c in str, 0 when there is none.
LastIndexOf(str, c) ==
    IF \E k \in 1..Len(str) : str[k] = c
    THEN CHOOSE k \in 1..Len(str) : str[k] = c /\ \A j \in (k + 1)..Len(str) : str[j] # c
    ELSE 0

\* path.extname: from the last '.' of the last path segment to the end; ''
\* when there is none or the segment starts with it.
ExtName(path) ==
    LET dot  == LastIndexOf(path, 46)
        base == LastIndexOf(path, 47) + 1
    IN  IF dot = 0 \/ dot <= base THEN <<>> ELSE SubSeq(path, dot, Len(path))

\* path.resolve(rootDir, track) for paths without '.' and '..' segments: an
\* absolute track stands for itself, a relative one is put under rootDir.
Resolve(rootDir, track) ==
    IF track = <<>> THEN rootDir
    ELSE IF track[1] = 47 THEN track
    ELSE rootDir \o <<47>> \o track

Ext_mp3 == <<46, 109, 112, 51>>
Ext_wav == <<46, 119, 97, 118>>
Ext_flac == <<46, 102, 108, 97, 99>>

SUPPORTED_FILE_TYPES == {Ext_mp3, Ext_wav, Ext_flac}

\* The library root handed to buildTrackMap, "/r".
RootDir == <<47, 114>>

\* Track paths as crates give them.
Path_a == <<97>> \o Ext_mp3                 \* a.mp3: markers with two cues
Path_B == <<98, 46, 77, 80, 51>>            \* b.MP3: no Serato Markers2 tag
Path_c == <<99>> \o Ext_wav                 \* c.wav: markers with one cue
Path_d == <<100, 46, 116, 120, 116>>        \* d.txt: a file that is no audio file
Path_m == <<109>> \o Ext_mp3                \* m.mp3: no such file
Path_x == <<120>> \o Ext_mp3                \* x.mp3: markers starting 0x01 0x00
Path_constructor == <<99, 111, 110, 115, 116, 114, 117, 99, 116, 111, 114>>
Path_toString == <<116, 111, 83, 116, 114, 105, 110, 103>>
Path_valueOf == <<118, 97, 108, 117, 101, 79, 102>>

\* The files on disk, by absolute path: the marker data the file's tags yield
\* (parseMp3OrWav / parseFlac: a Buffer, or null without a Serato tag).
Files ==
    (Resolve(RootDir, Path_a) :>
        [markerData |-> Buf(<<1, 1>> \o Entry_Color \o Entry_Cue5 \o Entry_BpmLock \o Entry_Cue1)])
    @@ (Resolve(RootDir, Path_B) :> [markerData |-> NullBuffer])
    @@ (Resolve(RootDir, Path_c) :> [markerData |-> Buf(<<1, 1>> \o Entry_Cue1)])
    @@ (Resolve(RootDir, Path_d) :> [markerData |-> NullBuffer])
    @@ (Resolve(RootDir, Path_x) :> [markerData |-> Buf(<<1, 0>> \o Entry_Cue5)])

\* fs.existsSync
ExistsSync(absolutePath) == absolutePath \in DOMAIN Files

(***************************************************************************)
(* track-parser: convertTrack                                              *)
(***************************************************************************)

\* A filter that keeps every entry.
FilterCueEntries_All(es) == es

\* convertedMarkers.filter(entry => entry instanceof CueEntry)
RECURSIVE FilterCueEntries(_)
FilterCueEntries(es) ==
    IF es = <<>> THEN <<>>
    ELSE IF Head(es).cls = "CueEntry" THEN <<Head(es)>> \o FilterCueEntries(Tail(es))
    ELSE FilterCueEntries(Tail(es))

NoTrack == [metadata |-> [location |-> <<>>, fileExtension |-> <<>>], cuePoints |-> <<>>]

\* No convertTrack call is awaited.
NoCall == [st |-> "none", err |-> "", track |-> NoTrack]

\* convertTrack(filePath): the Track the promise resolves with, or the error
\* it rejects with.
ConvertTrack(filePath) ==
    LET fileExtension == ToLowerCase(ExtName(filePath))
        absolutePath == Resolve(RootDir, filePath)
    IN  IF ~(ExistsSync(absolutePath) /\ fileExtension \in SUPPORTED_FILE_TYPES)
        THEN [st |-> "throw", err |-> "File is not supported or does not exist",
              track |-> NoTrack]
        ELSE
        LET metadata == [location |-> absolutePath, fileExtension |-> fileExtension]
            markerData == Files[absolutePath].markerData
            converted == IF markerData.isNull
                         THEN [st |-> "return", err |-> "", entries |-> <<>>]
                         ELSE ConvertSeratoMarkers(markerData.bytes)
        IN  IF converted.st = "throw"
            THEN [st |-> "throw", err |-> converted.err, track |-> NoTrack]
            ELSE [st |-> "return", err |-> "",
                  track |-> [metadata |-> metadata,
                             cuePoints |-> FilterCueEntries(converted.entries)]]

(***************************************************************************)
(* serato-parser: buildTrackMap                                            *)
(***************************************************************************)

\* Property names every object inherits from Object.prototype (some of them):
\* trackMap[name] is a function for these, whatever trackMap holds.
ObjectPrototypeKeys == {Path_constructor, Path_toString, Path_valueOf}

\* trackMap has an own property track.
HasOwn(map, track) == \E k \in 1..Len(map) : map[k].path = track

\* The own property track of trackMap.
OwnEntry(map, track) == map[CHOOSE k \in 1..Len(map) : map[k].path = track]

\* A lookup that never finds a track.
Truthy_Never(map, track) == FALSE

\* trackMap[track] is truthy: an own entry, or an inherited property.
Truthy(map, track) == HasOwn(map, track) \/ track \in ObjectPrototypeKeys

\* Keys counted from 0.
NextKey_ZeroBased(map) == Len(map)

\* Object.keys(trackMap).length + 1
NextKey(map) == Len(map) + 1

\* trackMap[track] = entry: a new property goes last, an old one is overwritten.
SetProperty(map, track, entry) ==
    IF HasOwn(map, track)
    THEN [k \in 1..Len(map) |-> IF map[k].path = track THEN entry ELSE map[k]]
    ELSE Append(map, entry)

\* A check of the extension alone.
ShouldAdd_NoExistenceCheck(absolutePath) == ToLowerCase(ExtName(absolutePath)) = Ext_mp3

\* doesFileExist && isMP3
ShouldAdd(absolutePath) ==
    ExistsSync(absolutePath) /\ ToLowerCase(ExtName(absolutePath)) = Ext_mp3

\* A track that is undefined (a crate's Track tag without a name) rather
\* than a string.
UndefinedTrack == <<-1>>

\* Where buildTrackMap is after it has called convertTrack, were the call
\* not awaited: in its loop.
AwaitConvertTrack_NotAwaited == "loop"

\* Where buildTrackMap is after it has called convertTrack: suspended at
\* the await until the call settles.
AwaitConvertTrack == "awaiting"

\* The object assigned to trackMap[track].
NewEntry(map, track, absolutePath, trackObject) ==
    [path |-> track, key |-> NextKey(map), absolutePath |-> absolutePath,
     track |-> trackObject]

\* A progress that counts what is left instead of what is done.
Percent_Remaining(i, n) == [num |-> n - i, den |-> n]

\* The number (i / n) * 100 of a progress callback, kept as the fraction i / n.
Percent(i, n) == [num |-> i, den |-> n]

\* A message of a progress callback: the fixed text of the template and the
\* values put into it (a name, "n of m"); <<>> and 0 where it has none.
Message(text, name, n, of) == [text |-> text, name |-> name, n |-> n, of |-> of]

\* The progress callback after a track has been put into trackMap; ip and it
\* count from 1, the code's iPlaylist and iTrack from 0.
ConvertingProgress(pls, ip, it) ==
    [progress |-> Percent(ip - 1, Len(pls)),
     message |-> Message("Converting crate", pls[ip].name, it, Len(pls[ip].tracks))]

\* The track the two for-of loops are at.
CurrentTrack == playlists[iPlaylist].tracks[iTrack]

\* buildTrackMap as a whole, from the loops' position (ip, it) on: the
\* trackMap returned, or the error of the convertTrack call that rejected.
RECURSIVE BuildLoop(_, _, _, _)
BuildLoop(pls, ip, it, map) ==
    IF ip > Len(pls) THEN [st |-> "return", err |-> "", trackMap |-> map]
    ELSE IF it > Len(pls[ip].tracks) THEN BuildLoop(pls, ip + 1, 1, map)
    ELSE
    LET track == pls[ip].tracks[it]
        absolutePath == Resolve(RootDir, track)
    IN  IF track = UndefinedTrack
        THEN [st |-> "throw", err |-> "TypeError", trackMap |-> map]
        ELSE IF ~Truthy(map, track) /\ ShouldAdd(absolutePath)
        THEN LET c == ConvertTrack(absolutePath)
             IN  IF c.st = "throw" THEN [st |-> "throw", err |-> c.err, trackMap |-> map]
                 ELSE BuildLoop(pls, ip, it + 1,
                        SetProperty(map, track, NewEntry(map, track, absolutePath, c.track)))
        ELSE BuildLoop(pls, ip, it + 1, map)

BuildTrackMap(pls) == BuildLoop(pls, 1, 1, <<>>)

(***************************************************************************)
(* serato-parser: convertFromSerato                                        *)
(***************************************************************************)

Ext_crate == <<46, 99, 114, 97, 116, 101>>

\* path.resolve(seratoDir, '_Serato_', 'Subcrates')
SubcrateDirPath ==
    Resolve(Resolve(RootDir, <<95, 83, 101, 114, 97, 116, 111, 95>>),
            <<83, 117, 98, 99, 114, 97, 116, 101, 115>>)

\* path.join(dir, name) for a name without '.' and '..' segments.
Join(dir, name) == dir \o <<47>> \o name

\* path.basename(path, ext): the last segment, without ext when it ends
\* with ext and is longer than it.
BaseName(path, ext) ==
    LET base == SubSeq(path, LastIndexOf(path, 47) + 1, Len(path))
        n == Len(base) - Len(ext)
    IN  IF n > 0 /\ SubSeq(base, n + 1, Len(base)) = ext THEN SubSeq(base, 1, n)
        ELSE base

\* A check that always passes.
DoesSubcrateDirExist_Unchecked(dir) == TRUE

\* fs.existsSync(subcrateDir)
DoesSubcrateDirExist(dir) == dir.exists

\* cratePaths.filter(isCrateFile), .filter(cratesToConvert.includes(basename))
\* when cratesToConvert is given, and .map(path.join(subcrateDir, cratePath)).
RECURSIVE FilterCratePaths(_, _)
FilterCratePaths(files, wanted) ==
    IF files = <<>> THEN <<>>
    ELSE
    LET file == Head(files)
        isCrateFile == ExtName(file.name) = Ext_crate
        isWanted == \/ wanted.isUndefined
                    \/ \E k \in 1..Len(wanted.names) :
                            wanted.names[k] = BaseName(file.name, Ext_crate)
        rest == FilterCratePaths(Tail(files), wanted)
    IN  IF isCrateFile /\ isWanted
        THEN <<[path |-> Join(SubcrateDirPath, file.name), bytes |-> file.bytes]>> \o rest
        ELSE rest

\* A track name as buildTrackMap gets it.
TrackOfName(name) == IF name.isUndefined THEN UndefinedTrack ELSE name.chars

\* The progress callback after a crate has been parsed; i counts from 1.
AnalysingProgress(playlist, i, n) ==
    [progress |-> Percent(i - 1, n),
     message |-> Message("Analysing crate", playlist.name, i, n)]

(***************************************************************************)
(* to-rekordbox: buildCollectionTag, buildPlaylistsTag                     *)
(***************************************************************************)

\* `${trackObject.key}`: the decimal digits of a number, "undefined" when the
\* object has no key property (a function inherited from Object.prototype).
KeyString(map, track) ==
    IF HasOwn(map, track) THEN ToString(OwnEntry(map, track).key) ELSE "undefined"

\* playlist.tracks.filter(track => trackMap[track])
RECURSIVE FilterTracks(_, _)
FilterTracks(tracks, map) ==
    IF tracks = <<>> THEN <<>>
    ELSE IF Truthy(map, Head(tracks))
    THEN <<Head(tracks)>> \o FilterTracks(Tail(tracks), map)
    ELSE FilterTracks(Tail(tracks), map)

\* The COLLECTION element buildCollectionTag adds: one TRACK per key of
\* Object.keys(trackMap), with its TrackID and one POSITION_MARK per cue
\* point (Start is the position / 1000); the other attributes are left out.
CollectionTag(map) ==
    [Entries |-> ToString(Len(map)),
     tracks |-> [k \in 1..Len(map) |->
                    [TrackID |-> ToString(map[k].key),
                     marks |-> [c \in 1..Len(map[k].track.cuePoints) |->
                                  [Num |-> "-1", position |-> map[k].track.cuePoints[c].position]]]]]

\* The NODE element buildPlaylistsTag adds for one playlist.
PlaylistNode(playlist, map) ==
    LET filteredTracks == FilterTracks(playlist.tracks, map)
    IN  [Name |-> playlist.name,
         Entries |-> ToString(Len(filteredTracks)),
         tracks |-> [k \in 1..Len(filteredTracks) |->
                        [Key |-> KeyString(map, filteredTracks[k])]]]

(***************************************************************************)
(* The parts of the program that are not running                           *)
(***************************************************************************)

CrateIdle ==
    /\ crateBuffer = <<>>
    /\ crateIndex = 0
    /\ crate = EmptyCrate
    /\ cratePc = "idle"
    /\ trackNames = <<>>
    /\ lastTag = NullTag

MarkersIdle ==
    /\ markerBuffer = <<>>
    /\ markerIndex = 0
    /\ entries = <<>>
    /\ markerPc = "idle"
    /\ markerErr = ""

BuildIdle ==
    /\ playlists = <<>>
    /\ iPlaylist = 1
    /\ iTrack = 1
    /\ trackMap = <<>>
    /\ pending = NoCall
    /\ buildPc = "idle"
    /\ buildErr = ""
    /\ convertCalls = <<>>
    /\ progressLog = <<>>
    /\ inFlight = 0
    /\ elapsed = 0

EmitIdle ==
    /\ xmlCollection = [Entries |-> "", tracks |-> <<>>]
    /\ xmlPlaylists = <<>>
    /\ emitPc = "idle"

NoStreamCall == [fn |-> "none", size |-> 0, index |-> 0, value |-> NullBuffer]

NoMetadataCall == [st |-> "none", err |-> "", metadata |-> <<>>]

NmlIdle ==
    /\ nmlEntries = <<>>
    /\ nmlIndex = 0
    /\ nmlTrackMap = <<>>
    /\ nmlPending = NoMetadataCall
    /\ nmlProgress = <<>>
    /\ nmlPc = "idle"
    /\ nmlErr = ""

StreamIdle ==
    /\ streamBuffer = <<>>
    /\ streamIndex = 0
    /\ streamLast = NoStreamCall
    /\ streamReads = <<>>
    /\ streamCalls = 0

SeratoIdle ==
    /\ subcrateDir = [exists |-> FALSE, files |-> <<>>]
    /\ cratesToConvert = [isUndefined |-> TRUE, names |-> <<>>]
    /\ cratePaths = <<>>
    /\ iCrate = 1
    /\ fsCalls = <<>>
    /\ seratoPc = "idle"
    /\ seratoErr = ""

(***************************************************************************)
(* The crate decoder as a state machine                                    *)
(***************************************************************************)

InitCrate ==
    /\ NmlIdle
    /\ MarkersIdle
    /\ BuildIdle
    /\ EmitIdle
    /\ SeratoIdle
    /\ StreamIdle
    /\ crateBuffer \in CrateBuffers
    /\ crateIndex = 0
    /\ crate = EmptyCrate
    /\ cratePc = "parsing"
    /\ trackNames = <<>>
    /\ lastTag = NullTag

\* One parseTag call of parseCrate and the loop body that follows it.
ParseCrateStep ==
    /\ cratePc = "parsing"
    /\ LET r == ParseTag(crateBuffer, crateIndex)
       IN  /\ crateIndex' = r.index
           /\ lastTag' = r.tag
           /\ cratePc' = IF r.st = "throw" THEN "throw"
                         ELSE IF r.tag.cls = "null" THEN "parsed" ELSE "parsing"
           /\ crate' = IF r.st = "return" /\ r.tag.cls # "null"
                       THEN Classify(crate, r.tag) ELSE crate
    /\ UNCHANGED <<crateBuffer, trackNames, markerVars, buildVars, emitVars, seratoVars, streamVars, nmlVars>>

\* parseTrackNames / parseAsPlaylist, after parseCrate has returned.
ParseTrackNames ==
    /\ cratePc = "parsed"
    /\ LET m == MapTrackNames(crate.tracks)
       IN  /\ cratePc' = IF m.st = "throw" THEN "throw" ELSE "named"
           /\ trackNames' = m.names
    /\ UNCHANGED <<crateBuffer, crateIndex, crate, lastTag>>
    /\ UNCHANGED <<markerVars, buildVars, emitVars, seratoVars, streamVars, nmlVars>>

NextCrate == ParseCrateStep \/ ParseTrackNames

SpecCrate == InitCrate /\ [][NextCrate]_vars

(***************************************************************************)
(* The marker decoder as a state machine                                   *)
(***************************************************************************)

InitMarkers ==
    /\ NmlIdle
    /\ CrateIdle
    /\ BuildIdle
    /\ EmitIdle
    /\ SeratoIdle
    /\ StreamIdle
    /\ markerBuffer \in MarkerBuffers
    /\ markerIndex = 0
    /\ entries = <<>>
    /\ markerPc = "header"
    /\ markerErr = ""

\* convertSeratoMarkers up to its loop: the frame header is read and asserted.
CheckFrameHeader ==
    /\ markerPc = "header"
    /\ LET frameHeader == Read(markerBuffer, markerIndex, 2)
       IN  /\ markerIndex' = frameHeader.index
           /\ IF FrameHeaderValid(frameHeader.value)
              THEN markerPc' = "loop" /\ markerErr' = ""
              ELSE markerPc' = "throw" /\ markerErr' = "Frame header is invalid"
    /\ UNCHANGED <<markerBuffer, entries, crateVars, buildVars, emitVars, seratoVars, streamVars, nmlVars>>

\* One pass of the while (true) loop of convertSeratoMarkers.
MarkerStep ==
    /\ markerPc = "loop"
    /\ LET b == MarkerLoopBody(markerBuffer, markerIndex, entries)
       IN  /\ markerIndex' = b.index
           /\ entries' = b.entries
           /\ markerErr' = b.err
           /\ markerPc' = IF b.st = "continue" THEN "loop"
                          ELSE IF b.st = "break" THEN "done" ELSE "throw"
    /\ UNCHANGED <<markerBuffer, crateVars, buildVars, emitVars, seratoVars, streamVars, nmlVars>>

NextMarkers == CheckFrameHeader \/ MarkerStep

SpecMarkers == InitMarkers /\ [][NextMarkers]_vars

(***************************************************************************)
(* The two decoding loops, each run to its end                             *)
(***************************************************************************)

\* Crate files for the run of both loops: whole tags of each bucket, tags
\* that declare more payload than there is, and bytes too few for a tag.
LoopCrateItems ==
    { Item_TrackA, Item_Meta, Item_Column, Item_Unknown, Item_UnknownShort,
      Item_MetaShort, Item_TrackEmpty, Item_TrackNestedShort, Item_Tail, Item_Tail1 }

LoopCrateBuffers == { Concat(items) : items \in SeqUpTo(LoopCrateItems, MaxTags) }

\* Neither function has been called yet.
InitLoops ==
    /\ NmlIdle
    /\ CrateIdle
    /\ MarkersIdle
    /\ BuildIdle
    /\ EmitIdle
    /\ SeratoIdle
    /\ StreamIdle

\* parseCrate is called on the bytes of a crate file.
CallParseCrate ==
    /\ cratePc = "idle"
    /\ markerPc = "idle"
    /\ crateBuffer' \in LoopCrateBuffers
    /\ cratePc' = "parsing"
    /\ UNCHANGED <<crateIndex, crate, trackNames, lastTag>>
    /\ UNCHANGED <<markerVars, buildVars, emitVars, seratoVars, streamVars, nmlVars>>

\* convertSeratoMarkers is called on a marker buffer.
CallConvertSeratoMarkers ==
    /\ cratePc = "idle"
    /\ markerPc = "idle"
    /\ markerBuffer' \in MarkerBuffers
    /\ markerPc' = "header"
    /\ UNCHANGED <<markerIndex, entries, markerErr>>
    /\ UNCHANGED <<crateVars, buildVars, emitVars, seratoVars, streamVars, nmlVars>>

NextLoops == CallParseCrate \/ CallConvertSeratoMarkers \/ NextCrate \/ NextMarkers

\* The position of parseCrate: where it is in its code and in the stream.
cratePosition == <<cratePc, crateIndex>>

\* The position of convertSeratoMarkers.
markerPosition == <<markerPc, markerIndex>>

\* parseCrate, in its loop, goes on to some position.
CratePass ==
    /\ cratePc = "parsing"
    /\ cratePc' \in {"parsing", "parsed", "throw"}
    /\ crateIndex' \in 0..Len(crateBuffer)

\* convertSeratoMarkers, before or in its loop, goes on to some position.
MarkerPass ==
    /\ markerPc \in {"header", "loop"}
    /\ markerPc' \in {"loop", "done", "throw"}
    /\ markerIndex' \in 0..Len(markerBuffer)

\* Both functions are synchronous code: once called, a function is run on
\* until it returns or throws, it is never left waiting in its loop.  The
\* only steps from inside a loop are ParseCrateStep, CheckFrameHeader and
\* MarkerStep, so this is weak fairness of these.
SpecLoops ==
    /\ InitLoops
    /\ [][NextLoops]_vars
    /\ WF_cratePosition(CratePass)
    /\ WF_markerPosition(MarkerPass)

(***************************************************************************)
(* Playlists the library builder is run on                                 *)
(***************************************************************************)

\* The most playlists and track references, taken together, of a run.
MaxBuildSize == 5

\* A list of playlists is written as its track paths in order, each
\* playlist closed by EndOfPlaylist.
EndOfPlaylist == <<124>>

BuildPaths == {Path_a, Path_B, Path_c, Path_d, Path_m, Path_x}

EmitPaths == {Path_a, Path_B, Path_m, Path_constructor}

TimedPaths == {Path_a, Path_B, Path_m, Path_x}

\* The most turns of the event loop a convertTrack call takes.
MaxElapsed == 2

\* "P1", "P2", ...: crate files of one directory have different names.
PlaylistName(i) == <<80, 48 + i>>

RECURSIVE SplitPlaylists(_, _, _)
SplitPlaylists(tokens, current, done) ==
    IF tokens = <<>> THEN done
    ELSE IF Head(tokens) = EndOfPlaylist
    THEN SplitPlaylists(Tail(tokens), <<>>,
            Append(done, [name |-> PlaylistName(Len(done) + 1), tracks |-> current]))
    ELSE SplitPlaylists(Tail(tokens), Append(current, Head(tokens)), done)

PlaylistLists(paths) ==
    { SplitPlaylists(Append(t, EndOfPlaylist), <<>>, <<>>) :
        t \in SeqUpTo(paths \cup {EndOfPlaylist}, MaxBuildSize - 1) } \cup {<<>>}

(***************************************************************************)
(* The library builder and the emitter as a state machine                  *)
(***************************************************************************)

BuildStart(paths) ==
    /\ playlists \in PlaylistLists(paths)
    /\ iPlaylist = 1
    /\ iTrack = 1
    /\ trackMap = <<>>
    /\ pending = NoCall
    /\ buildPc = "loop"
    /\ buildErr = ""
    /\ convertCalls = <<>>
    /\ progressLog = <<>>
    /\ inFlight = 0
    /\ elapsed = 0

InitBuild ==
    /\ NmlIdle
    /\ CrateIdle
    /\ MarkersIdle
    /\ EmitIdle
    /\ SeratoIdle
    /\ StreamIdle
    /\ BuildStart(BuildPaths)

\* The inner loop reaches a track: it is skipped, or convertTrack is called
\* and awaited.
VisitTrack ==
    /\ buildPc = "loop"
    /\ iPlaylist <= Len(playlists)
    /\ iTrack <= Len(playlists[iPlaylist].tracks)
    /\ LET absolutePath == Resolve(RootDir, CurrentTrack)
       IN  IF CurrentTrack = UndefinedTrack
           THEN \* path.resolve(rootDir, undefined) throws a TypeError
                /\ buildPc' = "throw"
                /\ buildErr' = "TypeError"
                /\ UNCHANGED <<pending, convertCalls, iTrack, inFlight, elapsed>>
           ELSE IF ~Truthy(trackMap, CurrentTrack) /\ ShouldAdd(absolutePath)
           THEN /\ pending' = ConvertTrack(absolutePath)
                /\ convertCalls' = Append(convertCalls, CurrentTrack)
                /\ inFlight' = inFlight + 1
                /\ elapsed' = 0
                /\ buildPc' = AwaitConvertTrack
                /\ UNCHANGED <<iTrack, buildErr>>
           ELSE /\ iTrack' = iTrack + 1
                /\ UNCHANGED <<pending, convertCalls, buildPc, buildErr, inFlight, elapsed>>
    /\ UNCHANGED <<playlists, iPlaylist, trackMap, progressLog>>
    /\ UNCHANGED <<crateVars, markerVars, emitVars, seratoVars, streamVars, nmlVars>>

\* The awaited convertTrack settles: the track is put into trackMap, or
\* buildTrackMap rejects with convertTrack's error.
ResumeTrack ==
    /\ buildPc = "awaiting"
    /\ IF pending.st = "throw"
       THEN /\ buildPc' = "throw"
            /\ buildErr' = pending.err
            /\ UNCHANGED <<trackMap, iTrack, progressLog>>
       ELSE /\ trackMap' = SetProperty(trackMap, CurrentTrack,
                              NewEntry(trackMap, CurrentTrack,
                                       Resolve(RootDir, CurrentTrack), pending.track))
            /\ progressLog' = Append(progressLog, ConvertingProgress(playlists, iPlaylist, iTrack))
            /\ iTrack' = iTrack + 1
            /\ buildPc' = "loop"
            /\ UNCHANGED buildErr
    /\ pending' = NoCall
    /\ inFlight' = inFlight - 1
    /\ UNCHANGED <<playlists, iPlaylist, convertCalls, elapsed>>
    /\ UNCHANGED <<crateVars, markerVars, emitVars, seratoVars, streamVars, nmlVars>>

\* The inner loop is over: the outer loop goes to the next playlist.
EndPlaylist ==
    /\ buildPc = "loop"
    /\ iPlaylist <= Len(playlists)
    /\ iTrack > Len(playlists[iPlaylist].tracks)
    /\ iPlaylist' = iPlaylist + 1
    /\ iTrack' = 1
    /\ UNCHANGED <<playlists, trackMap, pending, buildPc, buildErr, convertCalls>>
    /\ UNCHANGED <<progressLog, inFlight, elapsed>>
    /\ UNCHANGED <<crateVars, markerVars, emitVars, seratoVars, streamVars, nmlVars>>

\* The outer loop is over: buildTrackMap returns trackMap.
ReturnTrackMap ==
    /\ buildPc = "loop"
    /\ iPlaylist > Len(playlists)
    /\ buildPc' = "done"
    /\ progressLog' = Append(progressLog,
            [progress |-> Percent(1, 1),
             message |-> Message("Finished converting crates", <<>>, 0, 0)])
    /\ UNCHANGED <<playlists, iPlaylist, iTrack, trackMap, pending, buildErr, convertCalls>>
    /\ UNCHANGED <<inFlight, elapsed>>
    /\ UNCHANGED <<crateVars, markerVars, emitVars, seratoVars, streamVars, nmlVars>>

\* The awaited convertTrack call (its file reads and tag parsing) takes
\* another turn of the event loop; buildTrackMap stays suspended.
ConvertTrackRuns ==
    /\ buildPc = "awaiting"
    /\ elapsed < MaxElapsed
    /\ elapsed' = elapsed + 1
    /\ UNCHANGED <<playlists, iPlaylist, iTrack, trackMap, pending, buildPc, buildErr>>
    /\ UNCHANGED <<convertCalls, progressLog, inFlight>>
    /\ UNCHANGED <<crateVars, markerVars, emitVars, seratoVars, streamVars, nmlVars>>

NextBuild == VisitTrack \/ ResumeTrack \/ EndPlaylist \/ ReturnTrackMap

SpecBuild == InitBuild /\ [][NextBuild]_vars

\* buildTrackMap with convertTrack calls that take any time up to MaxElapsed.
InitBuildTimed ==
    /\ NmlIdle
    /\ CrateIdle
    /\ MarkersIdle
    /\ EmitIdle
    /\ SeratoIdle
    /\ StreamIdle
    /\ BuildStart(TimedPaths)

NextBuildTimed == NextBuild \/ ConvertTrackRuns

SpecBuildTimed == InitBuildTimed /\ [][NextBuildTimed]_vars

InitRekordbox ==
    /\ NmlIdle
    /\ CrateIdle
    /\ MarkersIdle
    /\ SeratoIdle
    /\ StreamIdle
    /\ BuildStart(EmitPaths)
    /\ xmlCollection = [Entries |-> "", tracks |-> <<>>]
    /\ xmlPlaylists = <<>>
    /\ emitPc = "collection"

\* convertToRekordbox, first half: buildCollectionTag(trackMap, ...).
BuildCollectionTag ==
    /\ buildPc = "done"
    /\ emitPc = "collection"
    /\ xmlCollection' = CollectionTag(trackMap)
    /\ emitPc' = "playlists"
    /\ UNCHANGED <<xmlPlaylists, crateVars, markerVars, buildVars, seratoVars, streamVars, nmlVars>>

\* convertToRekordbox, second half: buildPlaylistsTag(playlists, trackMap, ...).
BuildPlaylistsTag ==
    /\ buildPc = "done"
    /\ emitPc = "playlists"
    /\ xmlPlaylists' = [i \in 1..Len(playlists) |-> PlaylistNode(playlists[i], trackMap)]
    /\ emitPc' = "done"
    /\ UNCHANGED <<xmlCollection, crateVars, markerVars, buildVars, seratoVars, streamVars, nmlVars>>

NextRekordbox == NextBuild \/ BuildCollectionTag \/ BuildPlaylistsTag

SpecRekordbox == InitRekordbox /\ [][NextRekordbox]_vars

(***************************************************************************)
(* The Serato directory convertFromSerato is run on                        *)
(***************************************************************************)

\* The most files of the Subcrates directory.
MaxCrateFiles == 3

\* The UTF-16 big-endian bytes of a text of character codes below 256.
Utf16BE(chars) ==
    [k \in 1..(2 * Len(chars)) |-> IF k % 2 = 1 THEN 0 ELSE chars[k \div 2]]

\* The Track tag (otrk) of a track path.
TrackItem(track) == EncodeTag(Key_otrk, EncodeTag(Key_ptrk, Utf16BE(track)))

FileName(stem, ext) == <<80, 48 + stem>> \o ext

\* P1.crate: a.mp3 and a missing file; P2.crate: b.MP3 and a.mp3 again;
\* P3.crate: a Metadata tag cut short; P4.crate: a Track tag without a
\* TrackName tag; P5.crate: a track whose marker data has a bad header;
\* P6.txt: no crate file.
File_P1 ==
    [name |-> FileName(1, Ext_crate),
     bytes |-> Item_Meta \o TrackItem(Path_a) \o TrackItem(Path_m)]
File_P2 ==
    [name |-> FileName(2, Ext_crate),
     bytes |-> TrackItem(Path_B) \o Item_Column \o TrackItem(Path_a)]
File_P3 ==
    [name |-> FileName(3, Ext_crate),
     bytes |-> TrackItem(Path_a) \o Item_MetaShort]
File_P4 ==
    [name |-> FileName(4, Ext_crate),
     bytes |-> TrackItem(Path_B) \o EncodeTag(Key_otrk, Item_Meta)]
File_P5 ==
    [name |-> FileName(5, Ext_crate),
     bytes |-> TrackItem(Path_x) \o TrackItem(Path_a)]
File_P6 ==
    [name |-> FileName(6, <<46, 116, 120, 116>>),
     bytes |-> TrackItem(Path_a)]

SubcrateFiles == {File_P1, File_P2, File_P3, File_P4, File_P5, File_P6}

\* Directory listings: files of different names, in any order.
Listings ==
    { l \in SeqUpTo(SubcrateFiles, MaxCrateFiles) :
        \A i, j \in 1..Len(l) : i # j => l[i] # l[j] }

CratesToConvert ==
    { [isUndefined |-> TRUE, names |-> <<>>],
      [isUndefined |-> FALSE, names |-> <<>>],
      [isUndefined |-> FALSE, names |-> <<FileName(1, <<>>), FileName(5, <<>>)>>] }

(***************************************************************************)
(* convertFromSerato as a state machine                                    *)
(***************************************************************************)

InitSerato ==
    /\ NmlIdle
    /\ StreamIdle
    /\ CrateIdle
    /\ MarkersIdle
    /\ BuildIdle
    /\ EmitIdle
    /\ subcrateDir \in
            {[exists |-> FALSE, files |-> <<>>]}
            \cup {[exists |-> TRUE, files |-> l] : l \in Listings}
    /\ cratesToConvert \in CratesToConvert
    /\ cratePaths = <<>>
    /\ iCrate = 1
    /\ fsCalls = <<>>
    /\ seratoPc = "start"
    /\ seratoErr = ""

\* assert(doesSubcrateDirExist, 'Could not find subcrates')
CheckSubcrateDir ==
    /\ seratoPc = "start"
    /\ IF DoesSubcrateDirExist(subcrateDir)
       THEN seratoPc' = "readdir" /\ seratoErr' = ""
       ELSE seratoPc' = "throw" /\ seratoErr' = "Could not find subcrates"
    /\ UNCHANGED <<subcrateDir, cratesToConvert, cratePaths, iCrate, fsCalls>>
    /\ UNCHANGED <<crateVars, markerVars, buildVars, emitVars, streamVars, nmlVars>>

\* fs.readdirSync(subcrateDir) (ENOENT when there is no such directory) and
\* the filters and the map of cratePaths.
ReadSubcrateDir ==
    /\ seratoPc = "readdir"
    /\ fsCalls' = Append(fsCalls, [fn |-> "readdirSync", path |-> SubcrateDirPath])
    /\ IF subcrateDir.exists
       THEN /\ cratePaths' = FilterCratePaths(subcrateDir.files, cratesToConvert)
            /\ seratoPc' = "crates"
            /\ seratoErr' = ""
       ELSE /\ cratePaths' = cratePaths
            /\ seratoPc' = "throw"
            /\ seratoErr' = "ENOENT"
    /\ UNCHANGED <<subcrateDir, cratesToConvert, iCrate>>
    /\ UNCHANGED <<crateVars, markerVars, buildVars, emitVars, streamVars, nmlVars>>

\* One call of the forEach callback: parseAsPlaylist(path), push, progress.
ParseCrateFile ==
    /\ seratoPc = "crates"
    /\ iCrate <= Len(cratePaths)
    /\ fsCalls' = Append(fsCalls, [fn |-> "readFileSync", path |-> cratePaths[iCrate].path])
    /\ LET cratePath == cratePaths[iCrate].path
           r == ParseAsPlaylist(BaseName(cratePath, ExtName(cratePath)),
                                cratePaths[iCrate].bytes)
           playlist == [name |-> r.playlist.name,
                        tracks |-> [k \in 1..Len(r.playlist.tracks) |->
                                       TrackOfName(r.playlist.tracks[k])]]
       IN  IF r.st = "throw"
           THEN /\ seratoPc' = "throw"
                /\ seratoErr' = "parseAsPlaylist"
                /\ UNCHANGED <<playlists, progressLog, iCrate>>
           ELSE /\ playlists' = Append(playlists, playlist)
                /\ progressLog' = Append(progressLog,
                        AnalysingProgress(playlist, iCrate, Len(cratePaths)))
                /\ iCrate' = iCrate + 1
                /\ UNCHANGED <<seratoPc, seratoErr>>
    /\ UNCHANGED <<subcrateDir, cratesToConvert, cratePaths>>
    /\ UNCHANGED <<iPlaylist, iTrack, trackMap, pending, buildPc, buildErr, convertCalls>>
    /\ UNCHANGED <<inFlight, elapsed>>
    /\ UNCHANGED <<crateVars, markerVars, emitVars, streamVars, nmlVars>>

\* After the forEach: the last progress callback of the analysis, and the
\* call of buildTrackMap(seratoDir, playlists, progressCallback).
CallBuildTrackMap ==
    /\ seratoPc = "crates"
    /\ iCrate > Len(cratePaths)
    /\ progressLog' = Append(progressLog,
            [progress |-> Percent(1, 1),
             message |-> Message("Finished analysing crates", <<>>, 0, 0)])
    /\ buildPc' = "loop"
    /\ seratoPc' = "building"
    /\ UNCHANGED <<subcrateDir, cratesToConvert, cratePaths, iCrate, fsCalls, seratoErr>>
    /\ UNCHANGED <<playlists, iPlaylist, iTrack, trackMap, pending, buildErr, convertCalls>>
    /\ UNCHANGED <<inFlight, elapsed>>
    /\ UNCHANGED <<crateVars, markerVars, emitVars, streamVars, nmlVars>>

\* await buildTrackMap(...) settles: convertFromSerato returns {playlists,
\* trackMap}, or rejects with buildTrackMap's error.
ReturnFromSerato ==
    /\ seratoPc = "building"
    /\ buildPc \in {"done", "throw"}
    /\ seratoPc' = IF buildPc = "done" THEN "done" ELSE "throw"
    /\ seratoErr' = buildErr
    /\ UNCHANGED <<subcrateDir, cratesToConvert, cratePaths, iCrate, fsCalls>>
    /\ UNCHANGED <<crateVars, markerVars, buildVars, emitVars, streamVars, nmlVars>>

NextSerato ==
    \/ CheckSubcrateDir
    \/ ReadSubcrateDir
    \/ ParseCrateFile
    \/ CallBuildTrackMap
    \/ NextBuild
    \/ ReturnFromSerato

SpecSerato == InitSerato /\ [][NextSerato]_vars

(***************************************************************************)
(* A ByteStream as a state machine                                         *)
(***************************************************************************)

\* The longest buffer of a stream and the most calls made on it.
MaxStreamLen == 3
MaxStreamCalls == 3

StreamBytes == {0, 171}

\* The sizes asked for: nothing, one byte, several, more than any buffer has.
StreamSizes == {0, 1, 2, 9}

\* new ByteStream(buffer)
InitStream ==
    /\ NmlIdle
    /\ CrateIdle
    /\ MarkersIdle
    /\ BuildIdle
    /\ EmitIdle
    /\ SeratoIdle
    /\ streamBuffer \in SeqUpTo(StreamBytes, MaxStreamLen)
    /\ streamIndex = 0
    /\ streamLast = NoStreamCall
    /\ streamReads = <<>>
    /\ streamCalls = 0

\* byteStream.read(size)
StreamRead ==
    /\ streamCalls < MaxStreamCalls
    /\ \E size \in StreamSizes :
        LET r == Read(streamBuffer, streamIndex, size)
        IN  /\ streamIndex' = r.index
            /\ streamLast' = [fn |-> "read", size |-> size, index |-> streamIndex,
                              value |-> r.value]
            /\ streamReads' = Append(streamReads, [size |-> size, value |-> r.value])
    /\ streamCalls' = streamCalls + 1
    /\ UNCHANGED <<streamBuffer, crateVars, markerVars, buildVars, emitVars, seratoVars, nmlVars>>

\* byteStream.lookahead(size)
StreamLookahead ==
    /\ streamCalls < MaxStreamCalls
    /\ \E size \in StreamSizes :
        LET r == Lookahead(streamBuffer, streamIndex, size)
        IN  /\ streamIndex' = r.index
            /\ streamLast' = [fn |-> "lookahead", size |-> size, index |-> streamIndex,
                              value |-> r.value]
    /\ streamCalls' = streamCalls + 1
    /\ UNCHANGED <<streamBuffer, streamReads>>
    /\ UNCHANGED <<crateVars, markerVars, buildVars, emitVars, seratoVars, nmlVars>>

NextStream == StreamRead \/ StreamLookahead

SpecStream == InitStream /\ [][NextStream]_vars

(***************************************************************************)
(* tracktor-parser: buildTrackMap                                          *)
(***************************************************************************)

Untitled == <<85, 110, 116, 105, 116, 108, 101, 100>>     \* "Untitled"

VolumesPrefix == <<47, 86, 111, 108, 117, 109, 101, 115, 47>>   \* "/Volumes/"

\* str.replace(/\/:/g, '/'): every "/:" from left to right becomes "/".
RECURSIVE ReplaceSlashColon(_)
ReplaceSlashColon(str) ==
    IF Len(str) < 2 THEN str
    ELSE IF str[1] = 47 /\ str[2] = 58
    THEN <<47>> \o ReplaceSlashColon(SubSeq(str, 3, Len(str)))
    ELSE <<str[1]>> \o ReplaceSlashColon(Tail(str))

\* `${locationData.VOLUME}${locationData.DIR}${locationData.FILE}`
LocationConstructed(locationData) ==
    locationData.volume \o locationData.dir \o locationData.file

\* absolutePathContructed.replace(/\/:/g, '/')
Location(locationData) ==
    LET absolutePathContructed ==
            (IF locationData.volume = Untitled THEN <<>>
             ELSE VolumesPrefix \o locationData.volume)
            \o locationData.dir \o locationData.file
    IN  ReplaceSlashColon(absolutePathContructed)

Dir_m == <<47, 58, 109, 47, 58>>      \* "/:m/:"
Volume_V == <<86>>                    \* "V"
Path_cFlac == <<99>> \o Ext_flac      \* c.flac: a file music-metadata cannot parse
Path_e == <<101>> \o Ext_mp3          \* e.mp3

\* The files of the Traktor library on disk: whether parseNodeStream of
\* music-metadata resolves for them.
NmlFiles ==
    (Location([volume |-> Volume_V, dir |-> Dir_m, file |-> Path_a]) :> [parses |-> TRUE])
    @@ (Location([volume |-> Untitled, dir |-> Dir_m, file |-> Path_B]) :> [parses |-> TRUE])
    @@ (Location([volume |-> Volume_V, dir |-> Dir_m, file |-> Path_cFlac]) :> [parses |-> FALSE])
    @@ (Location([volume |-> Volume_V, dir |-> Dir_m, file |-> Path_d]) :> [parses |-> TRUE])
    @@ (Location([volume |-> Volume_V, dir |-> Dir_m, file |-> Path_e]) :> [parses |-> TRUE])

\* getMetadata(filePath), of absolute paths: the metadata, or what is thrown.
GetMetadata(filePath) ==
    LET fileExtension == ToLowerCase(ExtName(filePath))
        doesFileExist == filePath \in DOMAIN NmlFiles
        isSupportedFile == fileExtension \in SUPPORTED_FILE_TYPES
    IN  IF doesFileExist /\ isSupportedFile
        THEN IF NmlFiles[filePath].parses
             THEN [st |-> "return", err |-> "",
                   metadata |-> [location |-> filePath, fileExtension |-> fileExtension]]
             ELSE [st |-> "throw", err |-> "parseNodeStream", metadata |-> <<>>]
        ELSE [st |-> "throw", err |-> "File is not supported or does not exist",
              metadata |-> <<>>]

\* Number(str) for a string of decimal digits.
RECURSIVE NumberOf(_)
NumberOf(str) ==
    IF str = <<>> THEN 0
    ELSE NumberOf(SubSeq(str, 1, Len(str) - 1)) * 10 + (str[Len(str)] - 48)

\* convertMarkers(entry): the cues of TYPE '0'; for...of throws a TypeError
\* when the entry has no CUE_V2 element.
RECURSIVE ConvertCues(_)
ConvertCues(cues) ==
    IF cues = <<>> THEN <<>>
    ELSE (IF Head(cues).type = <<48>>
          THEN <<[index |-> NumberOf(Head(cues).hotcue),
                  position |-> NumberOf(Head(cues).start)]>>
          ELSE <<>>)
         \o ConvertCues(Tail(cues))

ConvertMarkers(entry) ==
    IF entry.cues.isUndefined THEN [st |-> "throw", cuePoints |-> <<>>]
    ELSE [st |-> "return", cuePoints |-> ConvertCues(entry.cues.list)]

\* trackMap[locationConstructed] = { key: Object.keys(trackMap).length + 1,
\* absolutePath, track }: the keys are counted before the assignment, which
\* replaces the value of a property that exists and keeps its place.
PutTrack(map, path, value) ==
    LET made == [path |-> path, key |-> Len(map) + 1,
                 absolutePath |-> value.absolutePath, track |-> value.track]
    IN  IF \E k \in 1..Len(map) : map[k].path = path
        THEN [k \in 1..Len(map) |-> IF map[k].path = path THEN made ELSE map[k]]
        ELSE Append(map, made)

(***************************************************************************)
(* Traktor collections buildTrackMap is run on                             *)
(***************************************************************************)

\* The most ENTRY elements of a collection.
MaxNmlEntries == 3

NoCues == [isUndefined |-> TRUE, list |-> <<>>]

Cues(list) == [isUndefined |-> FALSE, list |-> list]

HotCue == [type |-> <<48>>, hotcue |-> <<50>>, start |-> <<49, 50, 53>>]
LoopCue == [type |-> <<53>>, hotcue |-> <<51>>, start |-> <<55>>]

Nml_a == [volume |-> Volume_V, dir |-> Dir_m, file |-> Path_a, cues |-> Cues(<<HotCue, LoopCue>>)]
\* the same location string and file as Nml_a, from another VOLUME and DIR
Nml_aSplit ==
    [volume |-> Volume_V \o <<47, 58, 109>>, dir |-> <<47, 58>>, file |-> Path_a,
     cues |-> Cues(<<>>)]
Nml_b == [volume |-> Untitled, dir |-> Dir_m, file |-> Path_B, cues |-> Cues(<<LoopCue>>)]
Nml_c == [volume |-> Volume_V, dir |-> Dir_m, file |-> Path_cFlac, cues |-> Cues(<<>>)]
Nml_d == [volume |-> Volume_V, dir |-> Dir_m, file |-> Path_d, cues |-> Cues(<<>>)]
Nml_e == [volume |-> Volume_V, dir |-> Dir_m, file |-> Path_e, cues |-> NoCues]
Nml_m == [volume |-> Volume_V, dir |-> Dir_m, file |-> Path_m, cues |-> Cues(<<HotCue>>)]

NmlEntrySet == {Nml_a, Nml_aSplit, Nml_b, Nml_c, Nml_d, Nml_e, Nml_m}

NmlCollections == SeqUpTo(NmlEntrySet, MaxNmlEntries)

(***************************************************************************)
(* tracktor-parser: buildTrackMap as a state machine                       *)
(***************************************************************************)

InitTracktor ==
    /\ CrateIdle
    /\ MarkersIdle
    /\ BuildIdle
    /\ EmitIdle
    /\ SeratoIdle
    /\ StreamIdle
    /\ nmlEntries \in NmlCollections
    /\ nmlIndex = 0
    /\ nmlTrackMap = <<>>
    /\ nmlPending = NoMetadataCall
    /\ nmlProgress = <<>>
    /\ nmlPc = "loop"
    /\ nmlErr = ""

\* The entry the loop is at.
CurrentEntry == nmlEntries[nmlIndex + 1]

\* The loop reaches an entry: it is passed over, or progress is reported and
\* getMetadata is called and awaited.
VisitEntry ==
    /\ nmlPc = "loop"
    /\ nmlIndex < Len(nmlEntries)
    /\ LET location == Location(CurrentEntry)
           doesFileExist == location \in DOMAIN NmlFiles
           isSupportedFile == ToLowerCase(ExtName(location)) \in SUPPORTED_FILE_TYPES
       IN  IF doesFileExist /\ isSupportedFile
           THEN /\ nmlProgress' = Append(nmlProgress,
                        [i |-> nmlIndex, of |-> Len(nmlEntries), location |-> location])
                /\ nmlPending' = GetMetadata(location)
                /\ nmlPc' = "awaiting"
                /\ UNCHANGED nmlIndex
           ELSE /\ nmlIndex' = nmlIndex + 1
                /\ UNCHANGED <<nmlProgress, nmlPending, nmlPc>>
    /\ UNCHANGED <<nmlEntries, nmlTrackMap, nmlErr>>
    /\ UNCHANGED <<crateVars, markerVars, buildVars, emitVars, seratoVars, streamVars>>

\* getMetadata has settled: the function rejects, or the markers are
\* converted and the track is assigned to trackMap.
ResumeEntry ==
    /\ nmlPc = "awaiting"
    /\ LET markers == ConvertMarkers(CurrentEntry)
       IN  IF nmlPending.st = "throw"
           THEN /\ nmlPc' = "throw"
                /\ nmlErr' = nmlPending.err
                /\ UNCHANGED <<nmlTrackMap, nmlIndex>>
           ELSE IF markers.st = "throw"
           THEN /\ nmlPc' = "throw"
                /\ nmlErr' = "TypeError"
                /\ UNCHANGED <<nmlTrackMap, nmlIndex>>
           ELSE /\ nmlTrackMap' = PutTrack(nmlTrackMap, LocationConstructed(CurrentEntry),
                        [absolutePath |-> Location(CurrentEntry),
                         track |-> [metadata |-> nmlPending.metadata,
                                    cuePoints |-> markers.cuePoints]])
                /\ nmlIndex' = nmlIndex + 1
                /\ nmlPc' = "loop"
                /\ UNCHANGED nmlErr
    /\ nmlPending' = NoMetadataCall
    /\ UNCHANGED <<nmlEntries, nmlProgress>>
    /\ UNCHANGED <<crateVars, markerVars, buildVars, emitVars, seratoVars, streamVars>>

\* return trackMap
ReturnNmlTrackMap ==
    /\ nmlPc = "loop"
    /\ nmlIndex = Len(nmlEntries)
    /\ nmlPc' = "done"
    /\ UNCHANGED <<nmlEntries, nmlIndex, nmlTrackMap, nmlPending, nmlProgress, nmlErr>>
    /\ UNCHANGED <<crateVars, markerVars, buildVars, emitVars, seratoVars, streamVars>>

NextTracktor == VisitEntry \/ ResumeEntry \/ ReturnNmlTrackMap

SpecTracktor == InitTracktor /\ [][NextTracktor]_vars

(***************************************************************************)
(* The tag grammar, read off the bytes: 4 bytes of type, 4 bytes of        *)
(* big-endian length, the payload.  Offsets count from 0.                  *)
(***************************************************************************)

TypeAt(buffer, i) == SubSeq(buffer, i + 1, i + 4)

DeclaredLength(buffer, i) == ReadUInt32BE(SubSeq(buffer, i + 5, i + 8), 0)

\* A tag header lies at offset i and declares more payload than remains.
DeclaresTooMuch(buffer, i) ==
    /\ Len(buffer) >= i + 8
    /\ DeclaredLength(buffer, i) > Len(buffer) - (i + 8)

\* A whole tag lies at offset i: its header and the payload it declares.
WellFormedAt(buffer, i) ==
    /\ Len(buffer) >= i + 8
    /\ DeclaredLength(buffer, i) <= Len(buffer) - (i + 8)

PayloadAt(buffer, i) == SubSeq(buffer, i + 9, i + 8 + DeclaredLength(buffer, i))

\* The offset of the first byte after the tag at offset i.
EndOfTagAt(buffer, i) == i + 8 + DeclaredLength(buffer, i)

KnownTypes == {Key_orvc, Key_osrt, Key_otrk, Key_ovct, Key_ptrk, Key_tvcn, Key_vrsn}

\* A returned tag, or a tag nested in it, is an UnknownTag whose payload is null.
RECURSIVE MissingPayload(_)
MissingPayload(tag) ==
    CASE tag.cls = "UnknownTag" -> tag.payload.isNull
      [] tag.cls \in {"ColumnTag", "FirstColumnTag"} ->
            MissingPayload(tag.nameTag) \/ MissingPayload(tag.tag2)
      [] tag.cls = "TrackTag" -> MissingPayload(tag.nameTag)
      [] tag.cls = "UnknownPayload" -> MissingPayload(tag.payload)
      [] OTHER -> FALSE

\* The tags parseCrate's loop gets from offset index on, and how it ends.
RECURSIVE ParseRest(_, _)
ParseRest(buffer, index) ==
    LET r == ParseTag(buffer, index)
    IN  IF r.st = "throw" THEN [st |-> "throw", tags |-> <<>>]
        ELSE IF r.tag.cls = "null" THEN [st |-> "return", tags |-> <<>>]
        ELSE LET rest == ParseRest(buffer, r.index)
             IN  [st |-> rest.st, tags |-> <<r.tag>> \o rest.tags]

\* buffer without the n bytes at offset i.
RemoveBytes(buffer, i, n) == SubSeq(buffer, 1, i) \o SubSeq(buffer, i + n + 1, Len(buffer))

\* A valid crate: whole tags end to end; text payloads of even length; a
\* Track (otrk) holding exactly one TrackName (ptrk); the other containers
\* holding whole tags.
RECURSIVE ValidTags(_)
ValidTag(tagType, payload) ==
    IF tagType \in {Key_vrsn, Key_tvcn, Key_ptrk} THEN Len(payload) % 2 = 0
    ELSE IF tagType = Key_otrk
    THEN /\ WellFormedAt(payload, 0)
         /\ EndOfTagAt(payload, 0) = Len(payload)
         /\ TypeAt(payload, 0) = Key_ptrk
         /\ DeclaredLength(payload, 0) % 2 = 0
    ELSE IF tagType \in {Key_ovct, Key_osrt, Key_orvc} THEN ValidTags(payload)
    ELSE TRUE

ValidTags(buffer) ==
    \/ buffer = <<>>
    \/ /\ WellFormedAt(buffer, 0)
       /\ ValidTag(TypeAt(buffer, 0), PayloadAt(buffer, 0))
       /\ ValidTags(SubSeq(buffer, EndOfTagAt(buffer, 0) + 1, Len(buffer)))

\* The text of a big-endian UTF-16 payload.
TextOf(payload) == [k \in 1..(Len(payload) \div 2) |-> payload[2 * k - 1] * 256 + payload[2 * k]]

\* The track names of a valid crate: the text of the ptrk in each top-level otrk.
RECURSIVE ExpectedTrackNames(_)
ExpectedTrackNames(buffer) ==
    IF buffer = <<>> THEN <<>>
    ELSE LET rest == ExpectedTrackNames(SubSeq(buffer, EndOfTagAt(buffer, 0) + 1, Len(buffer)))
         IN  IF TypeAt(buffer, 0) = Key_otrk
             THEN <<Str(TextOf(PayloadAt(PayloadAt(buffer, 0), 0)))>> \o rest
             ELSE rest

(***************************************************************************)
(* Claims about the crate decoder                                          *)
(***************************************************************************)

\* C1: wherever a tag, known or unknown, top-level or nested, declares more
\* payload than remains, decoding fails with an error: parseTag throws there,
\* and no tag ever returned has a missing (null) payload.
C1_TruncatedPayloadFails ==
    /\ (cratePc = "parsing" /\ DeclaresTooMuch(crateBuffer, crateIndex))
            => ParseTag(crateBuffer, crateIndex).st = "throw"
    /\ ~MissingPayload(lastTag)

\* C2: at a whole tag whose 4 type bytes are not in the type table, parseTag
\* returns an UnknownTag with that type and exactly the declared payload,
\* throws nothing, leaves the cursor right after the payload, and the tags
\* that follow decode as they would with the unknown tag cut out.
C2_UnknownTagPassThrough ==
    (/\ cratePc = "parsing"
     /\ WellFormedAt(crateBuffer, crateIndex)
     /\ TypeAt(crateBuffer, crateIndex) \notin KnownTypes)
    => LET r == ParseTag(crateBuffer, crateIndex)
           n == 8 + DeclaredLength(crateBuffer, crateIndex)
       IN  /\ r.st = "return"
           /\ r.tag.cls = "UnknownTag"
           /\ r.tag.tagType = TypeAt(crateBuffer, crateIndex)
           /\ r.tag.payload = Buf(PayloadAt(crateBuffer, crateIndex))
           /\ r.index = crateIndex + n
           /\ ParseRest(crateBuffer, r.index)
                = ParseRest(RemoveBytes(crateBuffer, crateIndex, n), crateIndex)

\* C3: for a valid crate, parseTrackNames returns one name per top-level otrk
\* tag, in file order, each the text of the ptrk nested in it, whatever other
\* tags lie between them.
C3_TrackOrder ==
    ValidTags(crateBuffer)
    => /\ cratePc # "throw"
       /\ cratePc = "named" => trackNames = ExpectedTrackNames(crateBuffer)

\* No byte of the buffer has its high bit set.
SevenBit(buffer) == \A k \in 1..Len(buffer) : buffer[k] < 128

ValidCrateBuffers == { b \in CrateBuffers : ValidTags(b) /\ SevenBit(b) }

\* C12: the crate parseCrate returns for a valid crate file is the crate of
\* no other valid crate file, so that the bytes of the file, the order of the
\* tags included, can be written back from it (on files of 7-bit bytes, where
\* the type of an unknown tag is kept as it is).
C12_RoundTrip ==
    (cratePc = "parsed" /\ crateBuffer \in ValidCrateBuffers)
    => \A b \in ValidCrateBuffers :
            (Len(b) = Len(crateBuffer) /\ ParseCrate(b).crate = crate) => b = crateBuffer

\* The bytes between the cursor and the end of the crate file.
Remaining == Len(crateBuffer) - crateIndex

C19_NullAtEnd ==
    (cratePc = "parsing" /\ Remaining < 4)
    => /\ ParseTag(crateBuffer, crateIndex) = Return(NullTag, crateIndex)
       /\ ParseCrateLoop(crateBuffer, crateIndex, crate) = [st |-> "return", crate |-> crate]

C19_ReturnsSoFar ==
    (cratePc = "parsing" /\ Remaining < 4)
    => /\ cratePc' = "parsed"
       /\ lastTag' = NullTag
       /\ crateIndex' = crateIndex
       /\ crate' = crate

\* C19: when parseCrate calls parseTag with 0, 1, 2 or 3 bytes left in the
\* stream, parseTag returns null, raises nothing and leaves the cursor where
\* it was, and parseCrate leaves its loop and returns the crate as collected
\* up to there.
C19_EndOfStream == [](C19_NullAtEnd) /\ [][C19_ReturnsSoFar]_vars

\* C19 witness: parseCrate has returned a crate of one track with two bytes
\* of the file left unread.
C19_Witness ==
    /\ cratePc = "parsed"
    /\ Remaining = 2
    /\ lastTag = NullTag
    /\ Len(crate.tracks) = 1
    /\ crateBuffer = Item_TrackA \o Item_Tail2

\* The four type bytes of the tag the cursor is at.
TypeAtCursor == SubSeq(crateBuffer, crateIndex + 1, crateIndex + 4)

\* C20: for a tag whose type and length are both in the stream, parseTag
\* makes an object of one of the known kinds exactly when the four type bytes
\* are, byte for byte, one of vrsn, tvcn, ovct, osrt, ptrk, otrk, orvc (the
\* kind being the one the table gives); for any other four bytes it returns
\* an UnknownTag.
C20_ExactTypeMatch ==
    (cratePc = "parsing" /\ Remaining >= 8)
    => LET r == ParseTag(crateBuffer, crateIndex)
       IN  IF TypeAtCursor \in DOMAIN TAG_TYPE_TO_CLASS
           THEN r.st = "return" => r.tag.cls = TAG_TYPE_TO_CLASS[TypeAtCursor]
           ELSE /\ r.st = "return"
                /\ r.tag.cls = "UnknownTag"

\* The top-level tags parseTag returns from offset index on, up to the
\* offset upto, each with the four type bytes it was read from.
RECURSIVE TopLevelTags(_, _, _)
TopLevelTags(buffer, index, upto) ==
    IF index >= upto THEN <<>>
    ELSE LET r == ParseTag(buffer, index)
         IN  IF r.st = "throw" \/ r.tag.cls = "null" THEN <<>>
             ELSE <<[type |-> SubSeq(buffer, index + 1, index + 4), tag |-> r.tag]>>
                  \o TopLevelTags(buffer, r.index, upto)

\* The tags decoded by parseCrate up to the cursor.
DecodedSoFar == TopLevelTags(crateBuffer, 0, crateIndex)

\* The tags of a sequence of typed tags.
TagsOf(typed) == [k \in 1..Len(typed) |-> typed[k].tag]

\* C25 as stated: each top-level tag decoded is in exactly one of columns,
\* tracks, metadata and unknown, in file order; columns holds the ovct tags,
\* tracks the otrk tags, and unknown the tags whose four type bytes are not
\* in the type table.
C25_ByTypeTable ==
    cratePc \in {"parsing", "parsed"}
    => LET tags == DecodedSoFar
       IN  /\ crate.columns = TagsOf(SelectSeq(tags, LAMBDA t : t.type = Key_ovct))
           /\ crate.tracks = TagsOf(SelectSeq(tags, LAMBDA t : t.type = Key_otrk))
           /\ crate.unknown
                = TagsOf(SelectSeq(tags, LAMBDA t : t.type \notin DOMAIN TAG_TYPE_TO_CLASS))
           /\ Len(crate.columns) + Len(crate.tracks) + Len(crate.unknown)
                + (IF crate.metadata = NullTag THEN 0 ELSE 1) = Len(tags)

\* C25 as amended: columns holds the tags decoded as ColumnTag and tracks
\* those decoded as TrackTag, in file order; metadata is the last tag decoded
\* as MetadataTag; unknown holds, in file order, every other tag: the
\* UnknownTags and also the tags of the known types osrt, orvc, tvcn, ptrk.
C25_ByClass ==
    cratePc \in {"parsing", "parsed"}
    => LET tags == TagsOf(DecodedSoFar)
           metas == SelectSeq(tags, LAMBDA t : t.cls = "MetadataTag")
       IN  /\ crate.columns = SelectSeq(tags, LAMBDA t : t.cls = "ColumnTag")
           /\ crate.tracks = SelectSeq(tags, LAMBDA t : t.cls = "TrackTag")
           /\ crate.unknown
                = SelectSeq(tags, LAMBDA t : t.cls \notin {"ColumnTag", "TrackTag", "MetadataTag"})
           /\ crate.metadata = IF metas = <<>> THEN NullTag ELSE metas[Len(metas)]
           /\ Len(crate.columns) + Len(crate.tracks) + Len(crate.unknown) + Len(metas)
                = Len(tags)

\* C25 witness: parseCrate has returned from a file of two metadata tags and
\* an osrt tag between them, with the second metadata tag as metadata and the
\* osrt tag in unknown.
C25_Witness ==
    /\ cratePc = "parsed"
    /\ crateBuffer = Item_Meta \o Item_FirstColumn \o Item_Meta2
    /\ crate.metadata = ParseTag(Item_Meta2, 0).tag
    /\ Len(crate.unknown) = 1
    /\ crate.unknown[1].cls = "FirstColumnTag"

\* The types whose classes decode nested tags from their payload.
ContainerTypes == {Key_ovct, Key_osrt, Key_otrk, Key_orvc}

\* The payload length the tag at the cursor declares, at most 2^31 - 1.
DeclaredAtCursor ==
    IF crateBuffer[crateIndex + 5] >= 128 THEN 2147483647
    ELSE crateBuffer[crateIndex + 5] * 16777216 + crateBuffer[crateIndex + 6] * 65536
            + crateBuffer[crateIndex + 7] * 256 + crateBuffer[crateIndex + 8]

\* A container tag, payload and all, lies at the cursor.
ContainerAtCursor ==
    /\ cratePc = "parsing"
    /\ Remaining >= 8
    /\ ToStringAscii(TypeAtCursor) \in ContainerTypes
    /\ Remaining - 8 >= DeclaredAtCursor

C26_Isolated ==
    ContainerAtCursor
    => LET end == crateIndex + 8 + DeclaredAtCursor
           whole == ParseTag(crateBuffer, crateIndex)
           alone == ParseTag(SubSeq(crateBuffer, crateIndex + 1, end), 0)
       IN  /\ whole.index = end
           /\ whole.st = alone.st
           /\ whole.tag = alone.tag

C26_CursorAfter ==
    ContainerAtCursor
    => /\ crateIndex' = crateIndex + 8 + DeclaredAtCursor
       /\ cratePc' \in {"parsing", "throw"}

\* C26: when a tag of a container type lies at the cursor with all of its
\* declared payload, the tag decoded is the one decoded from these bytes
\* alone, whatever follows them in the file, and the cursor is left at the
\* tag's start + 8 + the declared length, whether the nested tags decode
\* or declare lengths past the end of the payload.
C26_Confined == [](C26_Isolated) /\ [][C26_CursorAfter]_vars

\* C26 witness: a track whose nested tag declares 200 bytes of payload and
\* has 1 has been decoded, with that nested tag left without a payload, and
\* the track after it has been decoded from its own bytes.
C26_Witness ==
    /\ cratePc = "parsed"
    /\ crateBuffer = Item_TrackNestedShort \o Item_TrackA
    /\ Len(crate.tracks) = 2
    /\ crate.tracks[1].nameTag.cls = "UnknownTag"
    /\ crate.tracks[1].nameTag.payload.isNull
    /\ crate.tracks[2] = ParseTag(Item_TrackA, 0).tag
    /\ crateIndex = Len(crateBuffer)

\* C29: whatever the crate file, parseAsPlaylist either fails with an error
\* or returns a playlist in which every track is a decoded string, and it is
\* so for the call as a whole.
C29_NoMissingTrackPath ==
    /\ cratePc = "named" => \A i \in 1..Len(trackNames) : ~trackNames[i].isUndefined
    /\ cratePc \in {"parsing", "parsed", "named", "throw"} =>
        LET r == ParseAsPlaylist(<<>>, crateBuffer)
        IN  r.st = "return" =>
                \A i \in 1..Len(r.playlist.tracks) : ~r.playlist.tracks[i].isUndefined

(***************************************************************************)
(* Claims about the marker decoder                                         *)
(***************************************************************************)

\* The first two bytes of the buffer are 0x01 0x01.
StartsWith0101(buffer) == Len(buffer) >= 2 /\ buffer[1] = 1 /\ buffer[2] = 1

\* C4: on a marker buffer that does not start with 0x01 0x01, shorter than
\* two bytes included, convertSeratoMarkers throws "Frame header is invalid"
\* and yields no entry: it is so once the header has been checked, and the
\* call as a whole ends so.
C4_InvalidFrameHeader ==
    (markerPc \in {"header", "loop", "done", "throw"} /\ ~StartsWith0101(markerBuffer))
    => /\ entries = <<>>
       /\ markerPc \in {"header", "throw"}
       /\ markerPc = "throw" => markerErr = "Frame header is invalid"
       /\ ConvertSeratoMarkers(markerBuffer)
            = [st |-> "throw", err |-> "Frame header is invalid", entries |-> <<>>]

\* C4 witness: a buffer of 0x01 0x00 and a whole CUE entry has been refused.
C4_Witness ==
    /\ markerPc = "throw"
    /\ Len(markerBuffer) > 2
    /\ markerBuffer[1] = 1
    /\ markerBuffer[2] = 0
    /\ SubSeq(markerBuffer, 3, Len(markerBuffer)) = Entry_Cue5

RecognizedNames == {Name_COLOR, Name_CUE, Name_BPMLOCK}

\* The offset of the first 0x00 at or after offset i, the length of the
\* buffer when there is none.
NameEnd(buffer, i) ==
    IF \E j \in (i + 1)..Len(buffer) : buffer[j] = 0
    THEN (CHOOSE j \in (i + 1)..Len(buffer) :
            buffer[j] = 0 /\ \A h \in (i + 1)..(j - 1) : buffer[h] # 0) - 1
    ELSE Len(buffer)

\* The buffer from offset i on as well-formed entries of recognized names,
\* end to end: a name, 0x00, a 4-byte big-endian length that is not 0, and
\* that many bytes of payload.
RECURSIVE Records(_, _)
Records(buffer, i) ==
    IF i = Len(buffer) THEN [ok |-> TRUE, recs |-> <<>>]
    ELSE
    LET e == NameEnd(buffer, i)
        name == SubSeq(buffer, i + 1, e)
    IN  IF name \notin RecognizedNames \/ Len(buffer) < e + 5
        THEN [ok |-> FALSE, recs |-> <<>>]
        ELSE
        LET length == ReadUInt32BE(SubSeq(buffer, e + 2, e + 5), 0)
        IN  IF length = 0 \/ e + 5 + length > Len(buffer)
            THEN [ok |-> FALSE, recs |-> <<>>]
            ELSE LET rest == Records(buffer, e + 5 + length)
                 IN  [ok |-> rest.ok,
                      recs |-> <<[name |-> name,
                                  payload |-> SubSeq(buffer, e + 6, e + 5 + length)]>>
                               \o rest.recs]

\* The class of the entries of a name.
ClassOfName(name) ==
    IF name = Name_COLOR THEN "ColorEntry"
    ELSE IF name = Name_CUE THEN "CueEntry" ELSE "BPMLockEntry"

\* C16: on a buffer of the header 0x01 0x01 and k well-formed entries of
\* recognized names, convertSeratoMarkers returns k entries, the j-th of the
\* class of the j-th name and built from the j-th payload and nothing else.
C16_Framing ==
    (/\ markerPc \in {"done", "throw"}
     /\ StartsWith0101(markerBuffer)
     /\ Records(markerBuffer, 2).ok)
    => LET recs == Records(markerBuffer, 2).recs
       IN  /\ markerPc = "done"
           /\ Len(entries) = Len(recs)
           /\ \A j \in 1..Len(recs) :
                /\ entries[j].cls = ClassOfName(recs[j].name)
                /\ entries[j] = ConvertEntry(recs[j].name, recs[j].payload, <<>>).entries[1]

\* The hex digits of one byte.
HexOfByte(b) == <<b \div 16, b % 16>>

\* C17: the entry decoded from a CUE payload of 10 bytes or more has byte 1
\* as index, the unsigned big-endian number of bytes 2 to 5 as position and
\* the hex digits of bytes 7 to 9 as color, and nothing else: bytes 0, 6 and
\* 10 and later have no part in it.
C17_CuePayload ==
    (StartsWith0101(markerBuffer) /\ Records(markerBuffer, 2).ok)
    => LET recs == Records(markerBuffer, 2).recs
       IN  \A j \in 1..Len(entries) :
            (recs[j].name = Name_CUE /\ Len(recs[j].payload) >= 10)
            => LET data == recs[j].payload
               IN  entries[j] =
                     [cls |-> "CueEntry",
                      index |-> data[2],
                      position |-> UInt32(data[3] * 256 + data[4], data[5] * 256 + data[6]),
                      color |-> HexOfByte(data[8]) \o HexOfByte(data[9]) \o HexOfByte(data[10])]

\* C17 witness: 00 05 00 00 80 BF 00 CC 00 00 00 00 00 and a payload that
\* differs from it in bytes 0, 6 and 10 and later have both been decoded to
\* index 5, position 32959, color cc0000.
C17_Witness ==
    /\ markerPc = "done"
    /\ markerBuffer = <<1, 1>> \o Entry_Cue5 \o Entry_Cue5Other
    /\ Len(entries) = 2
    /\ entries[1] = entries[2]
    /\ entries[1].index = 5
    /\ entries[1].position = UInt32(0, 32959)
    /\ entries[1].color = <<12, 12, 0, 0, 0, 0>>

\* The entry name at the cursor and the index after its terminator.
NameAtCursor == GetEntryType(markerBuffer, markerIndex)

\* The length field after the name at the cursor is missing or zero, or it
\* declares more bytes than the buffer has left after it.
PayloadMissing ==
    LET at == NameAtCursor.index
    IN  \/ Len(markerBuffer) < at + 4
        \/ ReadUInt32BE(SubSeq(markerBuffer, at + 1, at + 4), 0) = 0
        \/ Len(markerBuffer) < at + 4 + ReadUInt32BE(SubSeq(markerBuffer, at + 1, at + 4), 0)

C21_Fails ==
    (markerPc = "loop" /\ NameAtCursor.entryType # <<>> /\ PayloadMissing)
    => /\ MarkerLoopBody(markerBuffer, markerIndex, entries).st = "throw"
       /\ ConvertSeratoMarkers(markerBuffer).st = "throw"
       /\ ConvertSeratoMarkers(markerBuffer).entries = <<>>
       /\ ConvertSeratoMarkers(markerBuffer).err
            \in {"Entry length must be greater than 0",
                 "Corrupted entry: Payload failed to parse"}

C21_NoEntryBuilt ==
    (markerPc = "loop" /\ NameAtCursor.entryType # <<>> /\ PayloadMissing)
    => /\ markerPc' = "throw"
       /\ entries' = entries
       /\ markerErr' \in {"Entry length must be greater than 0",
                          "Corrupted entry: Payload failed to parse"}

\* C21: when a non-empty entry name is followed by no 4-byte length, by a
\* length of zero, or by fewer payload bytes than the length declares,
\* convertSeratoMarkers throws one of its two assertion errors, returns
\* nothing, and the pass of the loop adds no entry.
C21_TruncatedEntry == [](C21_Fails) /\ [][C21_NoEntryBuilt]_vars

\* C21 witness: after one COLOR entry, a COLOR entry of length zero has made
\* the call fail.
C21_Witness ==
    /\ markerBuffer = <<1, 1>> \o Entry_Color \o Entry_ColorZero
    /\ markerPc = "throw"
    /\ markerErr = "Entry length must be greater than 0"
    /\ Len(entries) = 1

\* The buffer from offset i on as well-formed entries of any non-empty
\* name, end to end.
RECURSIVE Framed(_, _)
Framed(buffer, i) ==
    IF i = Len(buffer) THEN [ok |-> TRUE, recs |-> <<>>]
    ELSE
    LET e == NameEnd(buffer, i)
        name == SubSeq(buffer, i + 1, e)
    IN  IF name = <<>> \/ Len(buffer) < e + 5
        THEN [ok |-> FALSE, recs |-> <<>>]
        ELSE
        LET length == ReadUInt32BE(SubSeq(buffer, e + 2, e + 5), 0)
        IN  IF length = 0 \/ e + 5 + length > Len(buffer)
            THEN [ok |-> FALSE, recs |-> <<>>]
            ELSE LET rest == Framed(buffer, e + 5 + length)
                 IN  [ok |-> rest.ok,
                      recs |-> <<[name |-> name,
                                  payload |-> SubSeq(buffer, e + 6, e + 5 + length)]>>
                               \o rest.recs]

\* The payload is long enough for the constructor of the entry's class.
Constructible(rec) == rec.name = Name_CUE => Len(rec.payload) >= 6

\* C22: on a buffer of the header 0x01 0x01 and well-formed entries of any
\* names (those of recognized names long enough to be constructed),
\* convertSeratoMarkers returns one element per entry, in order: the decoded
\* entry for a recognized name, an UnknownTag for any other name.
C22_UnknownNames ==
    (/\ markerPc \in {"done", "throw"}
     /\ StartsWith0101(markerBuffer)
     /\ Framed(markerBuffer, 2).ok
     /\ \A j \in 1..Len(Framed(markerBuffer, 2).recs) :
            Constructible(Framed(markerBuffer, 2).recs[j]))
    => LET recs == Framed(markerBuffer, 2).recs
       IN  /\ markerPc = "done"
           /\ Len(entries) = Len(recs)
           /\ \A j \in 1..Len(recs) :
                IF recs[j].name \in RecognizedNames
                THEN entries[j] = ConvertEntry(recs[j].name, recs[j].payload, <<>>).entries[1]
                ELSE entries[j].cls = "UnknownTag"

C23_Name ==
    markerPc = "loop"
    => LET e == NameEnd(markerBuffer, markerIndex)
           t == GetEntryType(markerBuffer, markerIndex)
       IN  /\ t.entryType = SubSeq(markerBuffer, markerIndex + 1, e)
           /\ \A k \in 1..Len(t.entryType) : t.entryType[k] # 0
           /\ t.index = IF e < Len(markerBuffer) THEN e + 1 ELSE Len(markerBuffer)
           /\ e < Len(markerBuffer) => markerBuffer[e + 1] = 0

\* The next byte is 0x00, or no byte remains.
EmptyNameAtCursor ==
    \/ markerIndex = Len(markerBuffer)
    \/ markerIndex < Len(markerBuffer) /\ markerBuffer[markerIndex + 1] = 0

C23_StopsOnEmptyName ==
    (markerPc = "loop" /\ EmptyNameAtCursor)
    => /\ markerPc' = "done"
       /\ markerErr' = ""
       /\ entries' = entries
       /\ ConvertSeratoMarkers(markerBuffer) = [st |-> "return", err |-> "", entries |-> entries]

\* C23: the entry name is the bytes from the cursor up to, and without, the
\* first 0x00 or the end of the buffer, the cursor being left after that
\* 0x00; when the name is empty the loop ends without an error and the call
\* returns the entries decoded up to there, whatever bytes follow.
C23_EntryName == [](C23_Name) /\ [][C23_StopsOnEmptyName]_vars

\* C23 witness: the call has returned no entry from a buffer with a 0x00
\* right after the header and a whole CUE entry behind it.
C23_Witness ==
    /\ markerBuffer = <<1, 1>> \o Entry_End \o Entry_Cue5
    /\ markerPc = "done"
    /\ markerIndex = 3
    /\ entries = <<>>

\* C24: the entry decoded from a COLOR payload of 4 bytes or more has the
\* six hex digits of bytes 1 to 3 as color, whatever the length of the
\* payload and the bytes after byte 3.
C24_ColorPayload ==
    (StartsWith0101(markerBuffer) /\ Records(markerBuffer, 2).ok)
    => LET recs == Records(markerBuffer, 2).recs
       IN  \A j \in 1..Len(entries) :
            (recs[j].name = Name_COLOR /\ Len(recs[j].payload) >= 4)
            => LET data == recs[j].payload
               IN  entries[j] =
                     [cls |-> "ColorEntry",
                      color |-> HexOfByte(data[2]) \o HexOfByte(data[3]) \o HexOfByte(data[4])]

(***************************************************************************)
(* Claims about both decoding loops                                        *)
(***************************************************************************)

C27_CursorBounded ==
    /\ crateIndex >= 0 /\ crateIndex <= Len(crateBuffer)
    /\ markerIndex >= 0 /\ markerIndex <= Len(markerBuffer)

C27_Advances ==
    /\ (cratePc = "parsing" /\ cratePc' = "parsing") => crateIndex' > crateIndex
    /\ (markerPc = "loop" /\ markerPc' = "loop") => markerIndex' > markerIndex

\* C27: the cursor of either loop stays within the buffer, every pass of a
\* loop that does not end it moves the cursor forward, and a loop that has
\* been entered ends: parseCrate returns or throws, and so does
\* convertSeratoMarkers.
C27_Termination ==
    /\ [](C27_CursorBounded)
    /\ [][C27_Advances]_vars
    /\ (cratePc = "parsing") ~> (cratePc \in {"parsed", "throw"})
    /\ (markerPc \in {"header", "loop"}) ~> (markerPc \in {"done", "throw"})

\* C27 witness: parseCrate has returned after three passes that each
\* decoded a tag and a last pass at the end of the file.
C27_Witness ==
    /\ cratePc = "parsed"
    /\ crateIndex = Len(crateBuffer)
    /\ Len(crate.tracks) + Len(crate.unknown) = 3

(***************************************************************************)
(* Claims about the library builder                                        *)
(***************************************************************************)

\* The track paths of all playlists, in playlist-then-track order.
RECURSIVE Flatten(_)
Flatten(pls) ==
    IF pls = <<>> THEN <<>> ELSE Head(pls).tracks \o Flatten(Tail(pls))

Count(seq, x) == Cardinality({k \in 1..Len(seq) : seq[k] = x})

Referenced(track) == Count(Flatten(playlists), track) > 0

FirstOccurrence(track) ==
    LET refs == Flatten(playlists)
    IN  CHOOSE k \in 1..Len(refs) : refs[k] = track /\ \A j \in 1..(k - 1) : refs[j] # track

\* The path resolves to no file, or to a file of an unsupported extension.
BadPath(track) ==
    LET absolutePath == Resolve(RootDir, track)
    IN  \/ ~ExistsSync(absolutePath)
        \/ ToLowerCase(ExtName(absolutePath)) \notin SUPPORTED_FILE_TYPES

\* The path resolves to a file whose marker data does not start 0x01 0x01.
BadHeader(track) ==
    LET absolutePath == Resolve(RootDir, track)
    IN  /\ ~BadPath(track)
        /\ ~Files[absolutePath].markerData.isNull
        /\ ~StartsWith0101(Files[absolutePath].markerData.bytes)

C5_KeysAreOneToN ==
    \A k \in 1..Len(trackMap) :
        /\ trackMap[k].key = k
        /\ \A j \in 1..Len(trackMap) : j # k => trackMap[j].path # trackMap[k].path

C5_KeysKept ==
    \A k \in 1..Len(trackMap) :
        /\ Len(trackMap') >= k
        /\ trackMap'[k].path = trackMap[k].path
        /\ trackMap'[k].key = trackMap[k].key

\* C5: in every state of buildTrackMap, the returned map included, the entry
\* inserted k-th has key k, so that the keys are exactly 1..N and distinct,
\* no two entries are of one path, and no step changes the key or the path
\* of an entry that is there.
C5_SequentialStableKeys == [](C5_KeysAreOneToN) /\ [][C5_KeysKept]_vars

\* C5 witness: two playlists have given a returned map of two entries.
C5_Witness ==
    /\ buildPc = "done"
    /\ Len(trackMap) = 2
    /\ Len(playlists) = 2
    /\ trackMap[2].key = 2

\* C6: a path is never converted twice nor entered twice, however often it
\* is referenced; in the returned map the entries are the paths convertTrack
\* was called for, each called for once, and they are keyed in the order of
\* their first occurrences in playlist-then-track order.
C6_ReferencedSeveralTimes ==
    /\ \A p \in BuildPaths :
        /\ Count(convertCalls, p) <= 1
        /\ Cardinality({k \in 1..Len(trackMap) : trackMap[k].path = p}) <= 1
    /\ buildPc = "done" =>
        /\ \A p \in BuildPaths : HasOwn(trackMap, p) <=> Count(convertCalls, p) = 1
        /\ \A k \in 1..Len(trackMap) :
            /\ Referenced(trackMap[k].path)
            /\ \A j \in 1..(k - 1) :
                FirstOccurrence(trackMap[j].path) < FirstOccurrence(trackMap[k].path)

\* C6 witness: a.mp3 is in the first playlist after b.MP3 and in the second
\* one, and the returned map has it once, with key 2.
C6_Witness ==
    /\ buildPc = "done"
    /\ Len(playlists) = 2
    /\ playlists[1].tracks = <<Path_B, Path_a>>
    /\ playlists[2].tracks = <<Path_a>>
    /\ Len(trackMap) = 2
    /\ OwnEntry(trackMap, Path_a).key = 2
    /\ convertCalls = <<Path_B, Path_a>>

\* C7: when a referenced track's marker data has an invalid header,
\* buildTrackMap still does not fail, and the map it returns has every
\* referenced track of an existing supported file, the affected one with its
\* metadata and no cue points.
C7_BadHeaderConfined ==
    (\E p \in BuildPaths : Referenced(p) /\ BadHeader(p))
    => /\ buildPc # "throw"
       /\ buildPc = "done" =>
            \A p \in BuildPaths :
                (Referenced(p) /\ ~BadPath(p))
                => /\ HasOwn(trackMap, p)
                   /\ OwnEntry(trackMap, p).key \in 1..Len(trackMap)
                   /\ BadHeader(p) =>
                        /\ OwnEntry(trackMap, p).track.cuePoints = <<>>
                        /\ OwnEntry(trackMap, p).track.metadata.location
                             = Resolve(RootDir, p)

\* C8: the returned map has an entry for every referenced path that resolves
\* to an existing .mp3, .wav or .flac file, and convertTrack was called for it.
C8_SupportedFilesInserted ==
    buildPc = "done" =>
        \A p \in BuildPaths :
            (Referenced(p) /\ ~BadPath(p))
            => /\ HasOwn(trackMap, p)
               /\ Count(convertCalls, p) = 1

\* The playlists without the paths that resolve to no supported file.
RECURSIVE WithoutBadPaths(_)
WithoutBadPaths(tracks) ==
    IF tracks = <<>> THEN <<>>
    ELSE IF BadPath(Head(tracks)) THEN WithoutBadPaths(Tail(tracks))
    ELSE <<Head(tracks)>> \o WithoutBadPaths(Tail(tracks))

RemoveBadPaths(pls) ==
    [i \in 1..Len(pls) |-> [name |-> pls[i].name, tracks |-> WithoutBadPaths(pls[i].tracks)]]

C9_SkipStep ==
    (/\ buildPc = "loop"
     /\ iPlaylist <= Len(playlists)
     /\ iTrack <= Len(playlists[iPlaylist].tracks)
     /\ BadPath(CurrentTrack))
    => /\ buildPc' = "loop"
       /\ buildErr' = buildErr
       /\ pending' = pending
       /\ convertCalls' = convertCalls
       /\ trackMap' = trackMap
       /\ playlists' = playlists

C9_AsIfAbsent ==
    buildPc \in {"done", "throw"} =>
        LET r == BuildTrackMap(RemoveBadPaths(playlists))
        IN  /\ r.trackMap = trackMap
            /\ r.err = buildErr
            /\ (r.st = "throw") <=> (buildPc = "throw")

\* C9: the step of buildTrackMap at a path that resolves to no file or to a
\* file of an unsupported extension fails nothing, calls no convertTrack,
\* leaves the map and the playlists as they are, and the run ends with the
\* map, keys included, of the same playlists with those paths taken out.
C9_BadPathSkipped == [](C9_AsIfAbsent) /\ [][C9_SkipStep]_vars

\* C9 witness: a missing file and a text file stand before a.mp3, and the
\* returned map holds a.mp3 alone, with key 1.
C9_Witness ==
    /\ buildPc = "done"
    /\ Len(playlists) = 1
    /\ playlists[1].tracks = <<Path_m, Path_d, Path_a>>
    /\ Len(trackMap) = 1
    /\ trackMap[1].path = Path_a
    /\ trackMap[1].key = 1
    /\ convertCalls = <<Path_a>>

\* The i-th smallest element of a set of numbers.
Nth(I, i) == CHOOSE k \in I : Cardinality({j \in I : j <= k}) = i

\* cues is the subsequence of the CUE entries of es.
IsCueSubsequence(cues, es) ==
    LET I == {k \in 1..Len(es) : es[k].cls = "CueEntry"}
    IN  /\ Len(cues) = Cardinality(I)
        /\ \A i \in 1..Len(cues) : cues[i] = es[Nth(I, i)]

\* The entries convertSeratoMarkers decodes from the marker data of a file;
\* none when the file has no marker data.
DecodedEntries(absolutePath) ==
    IF Files[absolutePath].markerData.isNull THEN <<>>
    ELSE ConvertSeratoMarkers(Files[absolutePath].markerData.bytes).entries

\* C15: the cuePoints of the Track convertTrack resolves with, and of the
\* Track kept in trackMap, are the CUE entries among the entries
\* convertSeratoMarkers decoded from the file's marker data, in that order,
\* and hold no COLOR and no BPMLOCK entry.
C15_CuePointsAreTheCues ==
    /\ (buildPc = "awaiting" /\ pending.st = "return") =>
        /\ IsCueSubsequence(pending.track.cuePoints,
                            DecodedEntries(Resolve(RootDir, CurrentTrack)))
        /\ \A i \in 1..Len(pending.track.cuePoints) :
                pending.track.cuePoints[i].cls \notin {"ColorEntry", "BPMLockEntry"}
    /\ \A k \in 1..Len(trackMap) :
        /\ IsCueSubsequence(trackMap[k].track.cuePoints,
                            DecodedEntries(trackMap[k].absolutePath))
        /\ \A i \in 1..Len(trackMap[k].track.cuePoints) :
                trackMap[k].track.cuePoints[i].cls = "CueEntry"

\* C15 witness: convertTrack has resolved for a.mp3, whose marker data holds
\* COLOR, CUE 5, BPMLOCK, CUE 1, with the two cues in that order.
C15_Witness ==
    /\ buildPc = "awaiting"
    /\ CurrentTrack = Path_a
    /\ Len(DecodedEntries(Resolve(RootDir, Path_a))) = 4
    /\ Len(pending.track.cuePoints) = 2
    /\ pending.track.cuePoints[1].index = 5
    /\ pending.track.cuePoints[2].index = 1

C18_OneInFlight ==
    /\ inFlight \in {0, 1}
    /\ inFlight = 1 <=> buildPc = "awaiting"
    /\ buildPc \in {"done", "throw"} =>
        LET r == BuildTrackMap(playlists)
        IN  /\ trackMap = r.trackMap
            /\ (buildPc = "throw") <=> (r.st = "throw")
            /\ \A k \in 1..Len(trackMap) :
                trackMap[k].key
                  = Cardinality({p \in TimedPaths :
                        /\ HasOwn(trackMap, p)
                        /\ FirstOccurrence(p) <= FirstOccurrence(trackMap[k].path)})

C18_OneWriter ==
    /\ trackMap' # trackMap =>
        /\ buildPc = "awaiting"
        /\ inFlight = 1
        /\ inFlight' = 0
        /\ trackMap' = Append(trackMap,
                [path |-> CurrentTrack, key |-> Len(trackMap) + 1,
                 absolutePath |-> Resolve(RootDir, CurrentTrack), track |-> pending.track])
    /\ elapsed' > elapsed =>
        /\ buildPc' = "awaiting"
        /\ <<trackMap, pending, iPlaylist, iTrack, convertCalls>>'
             = <<trackMap, pending, iPlaylist, iTrack, convertCalls>>

\* C18: at most one convertTrack call is in flight at any time and
\* buildTrackMap is suspended exactly while one is; trackMap is written only
\* when that call settles, one new entry for the track the loop is at; and
\* however long the calls take, the run ends with the map that the playlists
\* and the files alone determine, each path keyed by the order of first
\* occurrence among the paths entered.
C18_OneAtATime == [](C18_OneInFlight) /\ [][C18_OneWriter]_vars

\* C18 witness: a map of two entries has been returned after a call that
\* took two more turns of the event loop.
C18_Witness ==
    /\ buildPc = "done"
    /\ elapsed = 2
    /\ inFlight = 0
    /\ Len(trackMap) = 2
    /\ trackMap[2].key = 2

(***************************************************************************)
(* Claims about the Traktor library builder                                *)
(***************************************************************************)

\* C28: the keys of the entries of trackMap are pairwise different and are
\* exactly 1..N for its N entries, in every collection, one in which ENTRY
\* elements construct the same location string included.
C28_KeysAre1ToN ==
    nmlPc \in {"loop", "awaiting", "done"}
    => /\ \A j, k \in 1..Len(nmlTrackMap) :
            j # k => nmlTrackMap[j].key # nmlTrackMap[k].key
       /\ {nmlTrackMap[k].key : k \in 1..Len(nmlTrackMap)} = 1..Len(nmlTrackMap)

(***************************************************************************)
(* Claims about the emitter                                                *)
(***************************************************************************)

\* The tracks of a playlist that trackMap has an entry for, in order.
RECURSIVE PresentTracks(_, _)
PresentTracks(tracks, map) ==
    IF tracks = <<>> THEN <<>>
    ELSE IF HasOwn(map, Head(tracks))
    THEN <<Head(tracks)>> \o PresentTracks(Tail(tracks), map)
    ELSE PresentTracks(Tail(tracks), map)

\* C10: once the playlists are emitted, each playlist node has one TRACK per
\* track of the playlist that is in trackMap, in playlist order, with that
\* track's key, its Entries is the number of its TRACK children, and each
\* TRACK Key is the TrackID of exactly one TRACK of the COLLECTION.
C10_PlaylistNodes ==
    emitPc = "done" =>
        /\ Len(xmlPlaylists) = Len(playlists)
        /\ \A i \in 1..Len(playlists) :
            LET present == PresentTracks(playlists[i].tracks, trackMap)
                node == xmlPlaylists[i]
            IN  /\ node.Entries = ToString(Len(node.tracks))
                /\ Len(node.tracks) = Len(present)
                /\ \A k \in 1..Len(present) :
                    /\ node.tracks[k].Key = ToString(OwnEntry(trackMap, present[k]).key)
                    /\ Cardinality({t \in 1..Len(xmlCollection.tracks) :
                          xmlCollection.tracks[t].TrackID = node.tracks[k].Key}) = 1

(***************************************************************************)
(* Claims about convertFromSerato                                          *)
(***************************************************************************)

\* C11: when <root>/_Serato_/Subcrates does not exist, convertFromSerato
\* ends by throwing 'Could not find subcrates', and neither before nor after
\* that is a directory or crate file read, a playlist decoded, buildTrackMap
\* started, convertTrack called or a progress callback issued.
C11_MissingSubcrateDir ==
    (seratoPc # "idle" /\ ~subcrateDir.exists)
    => /\ seratoPc \in {"start", "throw"}
       /\ seratoPc = "throw" => seratoErr = "Could not find subcrates"
       /\ fsCalls = <<>>
       /\ playlists = <<>>
       /\ buildPc = "idle"
       /\ convertCalls = <<>>
       /\ progressLog = <<>>

\* C11 witness: the call has failed on a missing directory.
C11_Witness ==
    /\ seratoPc = "throw"
    /\ ~subcrateDir.exists
    /\ seratoErr = "Could not find subcrates"

\* The callbacks of the two phases, by the text of their message.
AnalysingTexts == {"Analysing crate", "Finished analysing crates"}

ConvertingTexts == {"Converting crate", "Finished converting crates"}

\* p1 <= p2 for two progress numbers.
PercentLeq(p1, p2) == p1.num * p2.den <= p2.num * p1.den

\* The progress number is 100.
IsHundred(p) == p.den > 0 /\ p.num = p.den

C30_Log ==
    LET log == progressLog
        text(k) == log[k].message.text
    IN  /\ \A k \in 1..Len(log) :
             /\ text(k) \in AnalysingTexts \cup ConvertingTexts
             /\ log[k].progress.den > 0
             /\ log[k].progress.num >= 0
             /\ log[k].progress.num <= log[k].progress.den
             /\ text(k) \in {"Finished analysing crates", "Finished converting crates"}
                 => IsHundred(log[k].progress)
        /\ \A j, k \in 1..Len(log) :
             /\ (text(j) \in AnalysingTexts /\ text(k) \in ConvertingTexts) => j < k
             /\ (j < k /\ text(j) \in AnalysingTexts /\ text(k) \in AnalysingTexts)
                 => PercentLeq(log[j].progress, log[k].progress)
             /\ (j < k /\ text(j) \in ConvertingTexts /\ text(k) \in ConvertingTexts)
                 => PercentLeq(log[j].progress, log[k].progress)
        /\ (\E k \in 1..Len(log) : text(k) \in ConvertingTexts)
             => \E j \in 1..Len(log) : text(j) = "Finished analysing crates"
        /\ seratoPc = "done"
             => /\ Len(log) > 0
                /\ text(Len(log)) = "Finished converting crates"
                /\ IsHundred(log[Len(log)].progress)

C30_Appended ==
    \/ progressLog' = progressLog
    \/ /\ Len(progressLog') = Len(progressLog) + 1
       /\ SubSeq(progressLog', 1, Len(progressLog)) = progressLog

\* C30: the callbacks are made one after the other; every 'Analysing crate'
\* callback and (100, 'Finished analysing crates') come before every
\* 'Converting crate' callback, which there is none of without the latter;
\* a run that returns has (100, 'Finished converting crates') as its last
\* callback; within each phase the progress never decreases, and every
\* progress is within 0..100.
C30_ProgressOrder == [](C30_Log) /\ [][C30_Appended]_vars

\* C30 witness: a run of two crates has returned after callbacks of both
\* phases with a progress above 0 and below 100.
C30_Witness ==
    /\ seratoPc = "done"
    /\ Len(cratePaths) = 2
    /\ \E k \in 1..Len(progressLog) :
        /\ progressLog[k].message.text = "Analysing crate"
        /\ progressLog[k].progress = Percent(1, 2)
    /\ \E k \in 1..Len(progressLog) :
        /\ progressLog[k].message.text = "Converting crate"
        /\ progressLog[k].progress = Percent(1, 2)
    /\ \E k \in 1..Len(progressLog) :
        /\ progressLog[k].message.text = "Converting crate"
        /\ progressLog[k].progress = Percent(0, 2)

(***************************************************************************)
(* Claims about ByteStream                                                 *)
(***************************************************************************)

\* C13: after read(size) at index i of a buffer: if i + size is at most the
\* buffer's length, the value returned is the bytes from offset i up to
\* i + size and the index is i + size; otherwise the value is null and the
\* index is still i.
C13_Read ==
    streamLast.fn = "read" =>
        LET i == streamLast.index
            size == streamLast.size
        IN  IF i + size <= Len(streamBuffer)
            THEN /\ streamLast.value = Buf(SubSeq(streamBuffer, i + 1, i + size))
                 /\ streamIndex = i + size
            ELSE /\ streamLast.value = NullBuffer
                 /\ streamIndex = i

\* C13 witness: a read has taken the last two bytes of a buffer of three,
\* after a read of its first byte.
C13_Witness ==
    /\ streamLast.fn = "read"
    /\ Len(streamBuffer) = 3
    /\ streamLast.index = 1
    /\ streamLast.size = 2
    /\ streamIndex = 3
    /\ Len(streamLast.value.bytes) = 2

\* What the reads of the given sizes return when nothing else is called.
RECURSIVE ReplayReads(_, _, _)
ReplayReads(buffer, index, reads) ==
    IF reads = <<>> THEN <<>>
    ELSE LET r == Read(buffer, index, Head(reads).size)
         IN  <<[size |-> Head(reads).size, value |-> r.value]>>
                \o ReplayReads(buffer, r.index, Tail(reads))

C14_LookaheadReturns ==
    /\ streamLast.fn = "lookahead" =>
        /\ streamLast.value = Read(streamBuffer, streamLast.index, streamLast.size).value
        /\ streamIndex = streamLast.index
    /\ streamReads = ReplayReads(streamBuffer, 0, streamReads)

C14_LookaheadStep ==
    (streamCalls' # streamCalls /\ streamLast'.fn = "lookahead")
    => /\ streamIndex' = streamIndex
       /\ streamBuffer' = streamBuffer

\* C14: lookahead(size) returns what read(size) would return from the same
\* index, null included, and changes neither the index nor the buffer: the
\* reads return what they return without the lookahead calls between them.
C14_Lookahead == [](C14_LookaheadReturns) /\ [][C14_LookaheadStep]_vars

\* C14 witness: two reads that returned bytes and a lookahead that returned
\* two bytes before the second of them.
C14_Witness ==
    /\ streamCalls = 3
    /\ Len(streamReads) = 2
    /\ streamLast.fn = "read"
    /\ streamLast.index = 1
    /\ ~streamReads[1].value.isNull
    /\ streamReads[2].value = Buf(<<171, 0>>)

====
